---- MODULE Spec2Model ----
(***************************************************************************)
(* Document scanner: the engine registry (MultiEngineOCR), the engine      *)
(* selector and ensemble arbiter, and the pipeline orchestrator            *)
(* (DocumentProcessor) with its in-memory ledger of processed documents.   *)
(*                                                                         *)
(* Conventions.                                                            *)
(*  - A Python exception is the field exc of an operation's outcome:       *)
(*    "none" when the call returned, the exception's kind otherwise.       *)
(*  - Confidences are integers in hundredths (90 stands for 0.90).         *)
(*  - A text (a Python str that is read character by character) is the     *)
(*    sequence of its characters.                                          *)
(*  - A dict is a record or a function; "error" in doc is                  *)
(*    "error" \in DOMAIN doc.                                              *)
(***************************************************************************)
EXTENDS Integers, Sequences, FiniteSets, TLC

VARIABLES
    engines,             \* MultiEngineOCR.engines: the registered ids, in insertion order
    nlp,                 \* MetadataExtractor.nlp: TRUE when the spaCy model is loaded
    processed_documents, \* DocumentProcessor.processed_documents: the ledger
    returned,            \* history: the results process_document returned normally, in order
    op,                  \* the operation that ran last
    call,                \* its arguments (and the environment it read)
    ret,                 \* its outcome
    hashseed,            \* the interpreter's string-hash seed (PYTHONHASHSEED, random by default)
    ner                  \* which spaCy pipeline is installed: what nlp(text).ents is for each text

vars == <<engines, nlp, processed_documents, returned, op, call, ret, hashseed, ner>>

(***************************************************************************)
(* Bounds of the model.                                                    *)
(***************************************************************************)
\* Longest ledger the orchestrator is run up to.
MaxLedger == 2
\* Longest list of paths handed to process_batch.
MaxBatch == 2
\* Most boxes (words, lines) a recognizer reports on an image.
MaxBoxes == 3

(***************************************************************************)
(* Sequence helpers.                                                       *)
(***************************************************************************)
Range(s) == {s[i] : i \in 1..Len(s)}

RECURSIVE SumSeq(_)
SumSeq(s) == IF s = <<>> THEN 0 ELSE Head(s) + SumSeq(Tail(s))

\* The sequences over S of length 0..n.
SeqsUpTo(S, n) == UNION {[1..k -> S] : k \in 0..n}

(***************************************************************************)
(* Python str operations, on sequences of characters.                      *)
(***************************************************************************)
\* str.lower, one character.
LowerChar(c) ==
    CASE c = "A" -> "a"
      [] c = "B" -> "b"
      [] c = "C" -> "c"
      [] c = "D" -> "d"
      [] c = "E" -> "e"
      [] c = "F" -> "f"
      [] c = "G" -> "g"
      [] c = "H" -> "h"
      [] c = "I" -> "i"
      [] c = "J" -> "j"
      [] c = "K" -> "k"
      [] c = "L" -> "l"
      [] c = "M" -> "m"
      [] c = "N" -> "n"
      [] c = "O" -> "o"
      [] c = "P" -> "p"
      [] c = "Q" -> "q"
      [] c = "R" -> "r"
      [] c = "S" -> "s"
      [] c = "T" -> "t"
      [] c = "U" -> "u"
      [] c = "V" -> "v"
      [] c = "W" -> "w"
      [] c = "X" -> "x"
      [] c = "Y" -> "y"
      [] c = "Z" -> "z"
      [] OTHER -> c

\* str.lower
lower(s) == [i \in 1..Len(s) |-> LowerChar(s[i])]

IsSpace(c) == c \in {" ", "\n", "\t"}

\* str.strip
RECURSIVE lstrip(_)
lstrip(s) == IF s # <<>> /\ IsSpace(Head(s)) THEN lstrip(Tail(s)) ELSE s

RECURSIVE rstrip(_)
rstrip(s) ==
    IF s # <<>> /\ IsSpace(s[Len(s)]) THEN rstrip(SubSeq(s, 1, Len(s) - 1)) ELSE s

strip(s) == rstrip(lstrip(s))

\* str.split(): the maximal runs of non-space characters, in order.
RECURSIVE SplitFrom(_, _, _)
SplitFrom(s, word, words) ==
    IF s = <<>>
    THEN IF word = <<>> THEN words ELSE Append(words, word)
    ELSE IF IsSpace(Head(s))
    THEN SplitFrom(Tail(s), <<>>, IF word = <<>> THEN words ELSE Append(words, word))
    ELSE SplitFrom(Tail(s), Append(word, Head(s)), words)

split(s) == SplitFrom(s, <<>>, <<>>)

\* needle in hay
Contains(hay, needle) ==
    \E i \in 0..(Len(hay) - Len(needle)) : SubSeq(hay, i + 1, i + Len(needle)) = needle

(***************************************************************************)
(* Engine registry: MultiEngineOCR.__init__ / _initialize_engines.         *)
(***************************************************************************)
EngineIds == {"tesseract", "easyocr", "paddle"}

\* What construction reads from its environment: whether each library
\* imported (TESSERACT_AVAILABLE, ...), whether OCR_CONFIG enables it, and
\* whether the reader's constructor raises (easyocr.Reader, PaddleOCR:
\* Tesseract has no constructor call).
Envs ==
    [available : [EngineIds -> BOOLEAN],
     enabled : [EngineIds -> BOOLEAN],
     init_raises : [{"easyocr", "paddle"} -> BOOLEAN]]

\* A mutant: the EasyOCR and PaddleOCR constructors run outside try/except,
\* so a raising constructor aborts construction.
_initialize_engines_unguarded(env) ==
    LET on(e) == env.available[e] /\ env.enabled[e]
        boom == \E e \in {"easyocr", "paddle"} : on(e) /\ env.init_raises[e]
        engs == (IF on("tesseract") THEN <<"tesseract">> ELSE <<>>)
                \o (IF on("easyocr") /\ ~boom THEN <<"easyocr">> ELSE <<>>)
                \o (IF on("paddle") /\ ~boom THEN <<"paddle">> ELSE <<>>)
    IN  [engines |-> engs,
         exc |-> IF boom THEN "Exception"
                 ELSE IF engs = <<>> THEN "RuntimeError" ELSE "none"]

_initialize_engines(env) ==
    LET tesseract ==
            IF env.available["tesseract"] /\ env.enabled["tesseract"]
            THEN <<"tesseract">> ELSE <<>>
        easyocr ==
            IF env.available["easyocr"] /\ env.enabled["easyocr"]
               /\ ~env.init_raises["easyocr"]
            THEN <<"easyocr">> ELSE <<>>
        paddle ==
            IF env.available["paddle"] /\ env.enabled["paddle"]
               /\ ~env.init_raises["paddle"]
            THEN <<"paddle">> ELSE <<>>
        engs == tesseract \o easyocr \o paddle
    IN  [engines |-> engs,
         exc |-> IF engs = <<>> THEN "RuntimeError" ELSE "none"]

(***************************************************************************)
(* Images.  An image file is described by what the code can observe of it: *)
(* whether cv2.imread decodes it, the external contours and the grey-level *)
(* statistics of the raster the detectors are given, and what each         *)
(* recognizer does on it.                                                  *)
(***************************************************************************)
\* A recognizer's behaviour on an image: it raises, or it reads a text (a
\* sequence of characters, as the recognizer returns it: "", "Invoice ",
\* "Dear Sir") with a mean confidence.
Raises == [raises |-> TRUE, text |-> <<>>, confidence |-> 0]

Outcomes ==
    {Raises,
     [raises |-> FALSE, text |-> <<>>, confidence |-> 0],
     [raises |-> FALSE, text |-> <<"I", "n", "v", "o", "i", "c", "e", " ">>,
      confidence |-> 50],
     [raises |-> FALSE, text |-> <<"D", "e", "a", "r", " ", "S", "i", "r">>,
      confidence |-> 90]}

\* Contour lists (area, perimeter) of a raster: none, one too small to
\* count, a compact one, a ragged one, a very ragged one.
ContourLists ==
    {<<>>,
     <<[area |-> 5, perimeter |-> 12]>>,
     <<[area |-> 100, perimeter |-> 40]>>,
     <<[area |-> 20, perimeter |-> 40]>>,
     <<[area |-> 11, perimeter |-> 40]>>,
     <<[area |-> 100, perimeter |-> 40], [area |-> 11, perimeter |-> 40]>>}

\* Grey-level statistics: a sharp, well-lit raster.
SharpPixels == [sharpness |-> 150, brightness |-> 120, contrast |-> 60]

Image(name, dec, cont, pix, ocr) ==
    [file_name |-> name, decodable |-> dec, contours |-> cont,
     pixels |-> pix, ocr |-> ocr, applied |-> <<>>]

\* The images the selector and the arbiter are exercised on.
Images ==
    {Image("scan.png", d, c, SharpPixels, o) :
        d \in BOOLEAN, c \in ContourLists, o \in [EngineIds -> Outcomes]}

(***************************************************************************)
(* ImagePreprocessor.                                                      *)
(***************************************************************************)
\* The operations argument of preprocess: None, or a dict, kept as its
\* items in the order the caller wrote them.
None == [is_none |-> TRUE, items |-> <<>>]

Dict(items) == [is_none |-> FALSE, items |-> items]

\* d.get(key, default)
get(d, key, default) ==
    IF \E i \in 1..Len(d.items) : d.items[i].key = key
    THEN d.items[CHOOSE i \in 1..Len(d.items) : d.items[i].key = key].value
    ELSE default

\* The dict preprocess takes when operations is None.
DefaultOperations ==
    Dict(<<[key |-> "denoise", value |-> TRUE],
           [key |-> "deskew", value |-> TRUE],
           [key |-> "enhance_contrast", value |-> TRUE],
           [key |-> "remove_shadows", value |-> TRUE]>>)

\* The operations preprocess applies under the dict ops, in the order it
\* applies them.
ApplyOperations(ops) ==
    (IF get(ops, "denoise", FALSE) THEN <<"denoise">> ELSE <<>>)
    \o (IF get(ops, "deskew", FALSE) THEN <<"deskew">> ELSE <<>>)
    \o (IF get(ops, "remove_shadows", FALSE) THEN <<"remove_shadows">> ELSE <<>>)
    \o (IF get(ops, "enhance_contrast", FALSE) THEN <<"enhance_contrast">> ELSE <<>>)

\* preprocess: reads the file again and applies the enabled operations in
\* the order of the code; applied records that order on the raster.
preprocess(image, operations) ==
    IF ~image.decodable
    THEN [exc |-> "ValueError", image |-> image]
    ELSE [exc |-> "none",
          image |-> [image EXCEPT !.applied =
              ApplyOperations(IF operations.is_none THEN DefaultOperations
                              ELSE operations)]]

\* A mutant of assess_quality: the contrast is looked at before the
\* lighting.
assess_quality_contrast_first(image) ==
    LET laplacian_var == image.pixels.sharpness
        brightness == image.pixels.brightness
        contrast == image.pixels.contrast
    IN  [sharpness |-> laplacian_var,
         brightness |-> brightness,
         contrast |-> contrast,
         quality |->
            IF laplacian_var < 100 THEN "blurry"
            ELSE IF contrast < 30 THEN "low_contrast"
            ELSE IF brightness < 50 \/ brightness > 200 THEN "poor_lighting"
            ELSE "good"]

\* deskew, on a raster given by whether it has foreground pixels and by the
\* angle cv2.minAreaRect reports for them, in tenths of a degree: the angle
\* the raster is rotated by (0 when it is returned as it is).
deskew(image) ==
    IF ~image.foreground THEN [rotated |-> FALSE, angle |-> 0]
    ELSE LET angle == IF image.rect_angle < -450
                      THEN -(900 + image.rect_angle)
                      ELSE -image.rect_angle
         IN  IF (IF angle < 0 THEN -angle ELSE angle) < 5
             THEN [rotated |-> FALSE, angle |-> angle]
             ELSE [rotated |-> TRUE, angle |-> angle]

\* assess_quality: the resolution entry (image.shape[:2]) is left out.
assess_quality(image) ==
    LET laplacian_var == image.pixels.sharpness
        brightness == image.pixels.brightness
        contrast == image.pixels.contrast
    IN  [sharpness |-> laplacian_var,
         brightness |-> brightness,
         contrast |-> contrast,
         quality |->
            IF laplacian_var < 100 THEN "blurry"
            ELSE IF brightness < 50 \/ brightness > 200 THEN "poor_lighting"
            ELSE IF contrast < 30 THEN "low_contrast"
            ELSE "good"]

RECURSIVE ProdSeq(_)
ProdSeq(s) == IF s = <<>> THEN 1 ELSE Head(s) * ProdSeq(Tail(s))

\* A mutant of detect_document_type: the contours of area 10 or less count
\* too.
detect_document_type_every_contour(image) ==
    LET contours == image.contours
        kept == contours
        den == ProdSeq([i \in 1..Len(kept) |-> kept[i].area + 1])
        num == SumSeq([i \in 1..Len(kept) |->
                   kept[i].perimeter * kept[i].perimeter
                   * (den \div (kept[i].area + 1))])
        n == Len(kept)
    IN  IF Len(contours) = 0 THEN "unknown"
        ELSE IF kept = <<>> THEN "unknown"
        ELSE IF num > 100 * n * den THEN "handwritten"
        ELSE IF num > 50 * n * den THEN "mixed"
        ELSE "printed"

\* detect_document_type: the mean of perimeter^2 / (area + 1) over the
\* contours of area > 10, compared with 100 and 50.  The mean is a
\* rational; both sides of each comparison are multiplied by the product
\* of the denominators and by the number of contours.
detect_document_type(image) ==
    LET contours == image.contours
        kept == SelectSeq(contours, LAMBDA c : c.area > 10)
        den == ProdSeq([i \in 1..Len(kept) |-> kept[i].area + 1])
        num == SumSeq([i \in 1..Len(kept) |->
                   kept[i].perimeter * kept[i].perimeter
                   * (den \div (kept[i].area + 1))])
        n == Len(kept)
    IN  IF Len(contours) = 0 THEN "unknown"
        ELSE IF kept = <<>> THEN "unknown"
        ELSE IF num > 100 * n * den THEN "handwritten"
        ELSE IF num > 50 * n * den THEN "mixed"
        ELSE "printed"

(***************************************************************************)
(* Recognition backends: MultiEngineOCR._ocr_tesseract / _ocr_easyocr /    *)
(* _ocr_paddle.  Each returns the text, the mean confidence, its own id    *)
(* and the word count, or lets the recognizer's exception through.         *)
(***************************************************************************)
NoResult == [text |-> <<>>, confidence |-> 0, engine |-> "", word_count |-> 0]

Backend(id, image) ==
    LET o == image.ocr[id]
    IN  IF o.raises
        THEN [exc |-> "EngineError", result |-> NoResult]
        ELSE [exc |-> "none",
              result |-> [text |-> strip(o.text), confidence |-> o.confidence,
                          engine |-> id, word_count |-> Len(split(o.text))]]

_ocr_tesseract(image) == Backend("tesseract", image)

_ocr_easyocr(image) == Backend("easyocr", image)

_ocr_paddle(image) == Backend("paddle", image)

\* The confidence a backend returns, computed from what its recognizer
\* reports.  A confidence is kept exact, as a fraction num / den of 1.
\*
\* pytesseract's data['conf'] holds one entry per box: a word's confidence
\* 0..100, and -1 for a box that is no word (page, block, paragraph, line).
\* Depending on the pytesseract release an entry is an int, or the -1
\* entries are the str '-1'; an entry is its Python type and its number.
TesseractConfEntries ==
    {[type |-> "str", value |-> -1],
     [type |-> "int", value |-> -1],
     [type |-> "int", value |-> 0],
     [type |-> "int", value |-> 96],
     [type |-> "int", value |-> 100]}

\* The confidences EasyOCR and PaddleOCR report for a line, in hundredths.
LineConfidences == {0, 50, 100}

\* _ocr_tesseract: [int(conf) for conf in data['conf'] if conf != '-1'],
\* then np.mean(confidences) / 100, or 0.0 for an empty list.  conf != '-1'
\* is false only for the str '-1'.
tesseract_confidence(conf) ==
    LET confidences ==
            SelectSeq(conf, LAMBDA c : ~(c.type = "str" /\ c.value = -1))
    IN  IF confidences # <<>>
        THEN [num |-> SumSeq([i \in 1..Len(confidences) |-> confidences[i].value]),
              den |-> 100 * Len(confidences)]
        ELSE [num |-> 0, den |-> 1]

\* _ocr_easyocr and _ocr_paddle: np.mean(confidences), or 0.0 for an empty
\* list; confidences in hundredths.
mean_confidence(confidences) ==
    IF confidences # <<>>
    THEN [num |-> SumSeq(confidences), den |-> 100 * Len(confidences)]
    ELSE [num |-> 0, den |-> 1]

(***************************************************************************)
(* Engine selector: MultiEngineOCR._select_engine.                         *)
(***************************************************************************)
DocumentClasses == {"printed", "handwritten", "mixed", "unknown"}

priority(document_type) ==
    CASE document_type = "printed" -> <<"tesseract", "paddle", "easyocr">>
      [] document_type = "handwritten" -> <<"easyocr", "paddle", "tesseract">>
      [] document_type = "mixed" -> <<"paddle", "easyocr", "tesseract">>
      [] OTHER -> <<"tesseract", "paddle", "easyocr">>

\* A mutant: the priority table is ignored and the first registered engine
\* is returned.
_select_engine_first_registered(engs, document_type) == Head(engs)

\* A mutant of _select_engine: when the first engine of the priority list
\* is not registered, no engine is named and the caller takes its ensemble
\* branch.
_select_engine_or_ensemble(engs, document_type) ==
    IF priority(document_type)[1] \in Range(engs)
    THEN priority(document_type)[1] ELSE "ensemble"

_select_engine(engs, document_type) ==
    LET engine_priority == priority(document_type)
        hits == {i \in 1..Len(engine_priority) : engine_priority[i] \in Range(engs)}
    IN  IF hits # {}
        THEN engine_priority[CHOOSE i \in hits : \A j \in hits : i <= j]
        ELSE Head(engs)

(***************************************************************************)
(* Ensemble arbiter: MultiEngineOCR._ocr_ensemble.                         *)
(***************************************************************************)
\* A mutant of EnsembleLabel: the id of the selected backend is kept as
\* the label.
EnsembleLabelPlain(engine) == engine

\* f"ensemble ({engine} selected)"
EnsembleLabel(engine) ==
    CASE engine = "tesseract" -> "ensemble (tesseract selected)"
      [] engine = "easyocr" -> "ensemble (easyocr selected)"
      [] engine = "paddle" -> "ensemble (paddle selected)"
      [] OTHER -> "ensemble (? selected)"

\* The backend of the given id.
recognize(id, image) ==
    CASE id = "tesseract" -> _ocr_tesseract(image)
      [] id = "easyocr" -> _ocr_easyocr(image)
      [] id = "paddle" -> _ocr_paddle(image)

\* A mutant of max: among equal confidences the last element wins.
ArgMaxLast(results) ==
    CHOOSE i \in 1..Len(results) :
        /\ \A j \in 1..Len(results) : results[j].confidence <= results[i].confidence
        /\ \A j \in (i + 1)..Len(results) : results[j].confidence < results[i].confidence

\* max(results, key=lambda x: x["confidence"]): the first element that no
\* other exceeds.
max_by_confidence(results) ==
    CHOOSE i \in 1..Len(results) :
        /\ \A j \in 1..Len(results) : results[j].confidence <= results[i].confidence
        /\ \A j \in 1..(i - 1) : results[j].confidence < results[i].confidence

\* The outcome of _ocr_ensemble: exc, the backends invoked (in order), and
\* the dict returned.  The backends run in the order of the three if
\* statements; the first one that raises ends the call.  best_result is an
\* element of results, so relabelling its engine relabels that element of
\* all_results too (the element's own all_results key, which would make the
\* dict cyclic, is left out).
_ocr_ensemble(engs, image) ==
    LET run == SelectSeq(<<"tesseract", "easyocr", "paddle">>,
                         LAMBDA e : e \in Range(engs))
        outs == [i \in 1..Len(run) |-> recognize(run[i], image)]
        failed == {i \in 1..Len(run) : outs[i].exc # "none"}
        first == CHOOSE i \in failed : \A j \in failed : i <= j
        results == [i \in 1..Len(run) |-> outs[i].result]
        best == max_by_confidence(results)
        relabelled == [results[best] EXCEPT !.engine = EnsembleLabel(@)]
        all_results == [results EXCEPT ![best] = relabelled]
    IN  IF failed # {}
        THEN [exc |-> outs[first].exc, invoked |-> SubSeq(run, 1, first),
              result |-> NoResult]
        ELSE IF results = <<>>
        THEN [exc |-> "none", invoked |-> run,
              result |-> [text |-> <<>>, confidence |-> 0, engine |-> "none",
                          word_count |-> 0]]
        ELSE [exc |-> "none", invoked |-> run,
              result |-> [all_results |-> all_results] @@ relabelled]

(***************************************************************************)
(* MultiEngineOCR.extract_text.  document_type "None" is the omitted       *)
(* argument; do_preprocess is the preprocess flag.                         *)
(***************************************************************************)
\* A mutant: the cv2.imread check is missing, so an undecodable file goes
\* on to selection and recognition.
extract_text_unchecked(engs, image_path, document_type, do_preprocess) ==
    LET engine == _select_engine(engs, "unknown")
        r == recognize(engine, image_path)
    IN  [exc |-> r.exc, invoked |-> <<engine>>,
         result |-> [document_type |-> "unknown",
                     quality_metrics |-> assess_quality(image_path),
                     engine_used |-> engine,
                     image_path |-> image_path.file_name] @@ r.result]

extract_text(engs, image_path, document_type, do_preprocess) ==
    IF ~image_path.decodable
    THEN [exc |-> "ValueError", invoked |-> <<>>, result |-> NoResult]
    ELSE
    LET pre == IF do_preprocess
               THEN preprocess(image_path, None)
               ELSE [exc |-> "none", image |-> image_path]
        image == pre.image
        dt == IF document_type = "None"
              THEN detect_document_type(image) ELSE document_type
        quality_metrics == assess_quality(image)
        engine == _select_engine(engs, dt)
        r == IF engine \in {"tesseract", "easyocr", "paddle"}
             THEN [invoked |-> <<engine>>] @@ recognize(engine, image)
             ELSE _ocr_ensemble(engs, image)
    IN  IF pre.exc # "none"
        THEN [exc |-> pre.exc, invoked |-> <<>>, result |-> NoResult]
        ELSE IF r.exc # "none"
        THEN [exc |-> r.exc, invoked |-> r.invoked, result |-> NoResult]
        ELSE [exc |-> "none", invoked |-> r.invoked,
              result |-> [document_type |-> dt,
                          quality_metrics |-> quality_metrics,
                          engine_used |-> engine,
                          image_path |-> image_path.file_name] @@ r.result]

(***************************************************************************)
(* MetadataExtractor.                                                      *)
(***************************************************************************)
\* The texts the extractors are run on: "", "Invoice", "Dear Sir",
\* "Paid $5 on 1/2/2020 and 3/4/2021", "Ref No: AB1234",
\* "bill bill bill dear regards", "Dear Invoice",
\* "memo zeta zeta yank xray wolf vast unit".
T_empty ==
    <<>>

T_Invoice ==
    <<"I", "n", "v", "o", "i", "c", "e">>

T_DearSir ==
    <<"D", "e", "a", "r", " ", "S", "i", "r">>

T_Paid ==
    <<"P", "a", "i", "d", " ", "$", "5", " ", "o", "n", " ", "1", "/",
      "2", "/", "2", "0", "2", "0", " ", "a", "n", "d", " ", "3", "/",
      "4", "/", "2", "0", "2", "1">>

T_Ref ==
    <<"R", "e", "f", " ", "N", "o", ":", " ", "A", "B", "1", "2", "3", "4">>

T_bill ==
    <<"b", "i", "l", "l", " ", "b", "i", "l", "l", " ", "b", "i", "l",
      "l", " ", "d", "e", "a", "r", " ", "r", "e", "g", "a", "r", "d", "s">>

T_DearInvoice ==
    <<"D", "e", "a", "r", " ", "I", "n", "v", "o", "i", "c", "e">>

T_memo ==
    <<"m", "e", "m", "o", " ", "z", "e", "t", "a", " ", "z", "e", "t",
      "a", " ", "y", "a", "n", "k", " ", "x", "r", "a", "y", " ", "w",
      "o", "l", "f", " ", "v", "a", "s", "t", " ", "u", "n", "i", "t">>

Texts ==
    {T_empty, T_Invoice, T_DearSir, T_Paid, T_Ref, T_bill, T_DearInvoice, T_memo}

\* re.findall(pattern, text) for the patterns of the extractors (named
\* here after what they match) on the texts of the model; a pattern with
\* one group (ref_no, doc_no) yields the group.
findall(pattern, text) ==
    CASE pattern = "capitalized_bigram" /\ text = T_DearSir ->
             <<<<"D", "e", "a", "r", " ", "S", "i", "r">>>>
      [] pattern = "date_dmy" /\ text = T_Paid ->
             <<<<"1", "/", "2", "/", "2", "0", "2", "0">>, <<"3", "/", "4", "/", "2", "0", "2", "1">>>>
      [] pattern = "dollar" /\ text = T_Paid ->
             <<<<"$", "5">>>>
      [] pattern = "capitalized_bigram" /\ text = T_Ref ->
             <<<<"R", "e", "f", " ", "N", "o">>>>
      [] pattern = "ref_letters_digits" /\ text = T_Ref ->
             <<<<"A", "B", "1", "2", "3", "4">>>>
      [] pattern = "ref_no" /\ text = T_Ref ->
             <<<<"A", "B", "1", "2", "3", "4">>>>
      [] pattern = "capitalized_bigram" /\ text = T_DearInvoice ->
             <<<<"D", "e", "a", "r", " ", "I", "n", "v", "o", "i", "c", "e">>>>
      [] OTHER -> <<>>

\* Candidate behaviours of the spaCy pipeline, as the (label, text) pairs
\* of doc.ents for each text: no entity at all; entities that repeat what
\* the patterns find; entities the patterns do not find.
NoEntities == [t \in Texts |-> <<>>]

EntitiesRepeating ==
    [t \in Texts |->
        IF t = T_Paid
        THEN <<[label |-> "DATE", text |-> <<"1", "/", "2", "/", "2", "0", "2", "0">>],
               [label |-> "MONEY", text |-> <<"$", "5">>],
               [label |-> "DATE", text |-> <<"1", "/", "2", "/", "2", "0", "2", "0">>]>>
        ELSE <<>>]

EntitiesOther ==
    [t \in Texts |->
        IF t = T_Paid
        THEN <<[label |-> "DATE", text |-> <<"2", "0", "2", "0">>],
               [label |-> "ORG", text |-> <<"P", "a", "i", "d">>],
               [label |-> "GPE", text |-> <<"P", "a", "i", "d">>],
               [label |-> "PERSON", text |-> <<"P", "a", "i", "d">>]>>
        ELSE IF t = T_DearSir
        THEN <<[label |-> "PERSON", text |-> <<"S", "i", "r">>]>>
        ELSE IF t = T_DearInvoice
        THEN <<[label |-> "ORG", text |-> <<"I", "n", "v", "o", "i", "c", "e">>],
               [label |-> "LOC", text |-> <<"I", "n", "v", "o", "i", "c", "e">>],
               [label |-> "ORG", text |-> <<"I", "n", "v", "o", "i", "c", "e">>]>>
        ELSE <<>>]

\* The pipeline of the given name.
Pipeline(name) ==
    CASE name = "repeating" -> EntitiesRepeating
      [] name = "other" -> EntitiesOther
      [] OTHER -> NoEntities

NerModels == {"none", "repeating", "other"}

\* nlp(text).ents
ents(text) == Pipeline(ner)[text]

\* The elements of xs without repetition, in the order they are first met.
RECURSIVE DedupInto(_, _)
DedupInto(xs, acc) ==
    IF xs = <<>> THEN acc
    ELSE DedupInto(Tail(xs),
                   IF Head(xs) \in Range(acc) THEN acc ELSE Append(acc, Head(xs)))

Reverse(s) == [i \in 1..Len(s) |-> s[Len(s) + 1 - i]]

\* A mutant of list_set: the list is returned as it is.
list_as_is(xs) == xs

\* list(set(xs)): the distinct elements of xs, in the iteration order of
\* the set, which follows the hashes of the strings and so the
\* interpreter's hash seed: one order under an even seed, the opposite
\* under an odd one.
list_set(xs) ==
    IF hashseed % 2 = 0 THEN DedupInto(xs, <<>>)
    ELSE Reverse(DedupInto(xs, <<>>))

RECURSIVE Concat(_)
Concat(seqs) == IF seqs = <<>> THEN <<>> ELSE Head(seqs) \o Concat(Tail(seqs))

\* for pattern in patterns: matches.extend(re.findall(pattern, text))
Hits(patterns, text) ==
    Concat([i \in 1..Len(patterns) |-> findall(patterns[i], text)])

\* [ent.text for ent in doc.ents if ent.label_ in labels]
EntTexts(text, labels) ==
    Concat([i \in 1..Len(ents(text)) |->
               IF ents(text)[i].label \in labels
               THEN <<ents(text)[i].text>> ELSE <<>>])

\* A mutant of extract_dates: with the pipeline loaded, its DATE entities
\* are returned instead of the pattern matches.
extract_dates_ner_only(has_nlp, text) ==
    list_set(IF has_nlp THEN EntTexts(text, {"DATE"})
             ELSE Hits(<<"date_dmy", "date_ymd", "date_d_month_y",
                         "date_month_d_y">>, text))

extract_dates(has_nlp, text) ==
    list_set(Hits(<<"date_dmy", "date_ymd", "date_d_month_y", "date_month_d_y">>,
                  text)
             \o (IF has_nlp THEN EntTexts(text, {"DATE"}) ELSE <<>>))

extract_names(has_nlp, text) ==
    list_set(IF has_nlp THEN EntTexts(text, {"PERSON"})
             ELSE Hits(<<"capitalized_bigram">>, text))

extract_organizations(has_nlp, text) ==
    list_set(IF has_nlp THEN EntTexts(text, {"ORG"}) ELSE <<>>)

extract_locations(has_nlp, text) ==
    list_set(IF has_nlp THEN EntTexts(text, {"GPE", "LOC"}) ELSE <<>>)

extract_emails(text) == list_set(Hits(<<"email">>, text))

extract_phone_numbers(text) ==
    list_set(Hits(<<"phone_international", "phone_10_digit", "phone_3_3_4">>, text))

extract_reference_numbers(text) ==
    list_set(Hits(<<"ref_letters_digits", "ref_digits_letters", "ref_no",
                    "doc_no">>, text))

extract_amounts(has_nlp, text) ==
    list_set(Hits(<<"rupee_sign", "rs", "dollar", "written_currency">>, text)
             \o (IF has_nlp THEN EntTexts(text, {"MONEY"}) ELSE <<>>))

\* The keyword table, in the order of the dict.
type_keywords ==
    <<[doc_type |-> <<"i", "n", "v", "o", "i", "c", "e">>,
      keywords |-> {<<"i", "n", "v", "o", "i", "c", "e">>,
                   <<"b", "i", "l", "l">>,
                   <<"a", "m", "o", "u", "n", "t", " ", "d", "u", "e">>,
                   <<"t", "o", "t", "a", "l", " ", "a", "m", "o", "u", "n", "t">>,
                   <<"p", "a", "y", "m", "e", "n", "t">>}],
     [doc_type |-> <<"l", "e", "t", "t", "e", "r">>,
      keywords |-> {<<"d", "e", "a", "r">>,
                   <<"s", "i", "n", "c", "e", "r", "e", "l", "y">>,
                   <<"r", "e", "g", "a", "r", "d", "s">>,
                   <<"y", "o", "u", "r", "s", " ", "t", "r", "u", "l", "y">>}],
     [doc_type |-> <<"f", "o", "r", "m">>,
      keywords |-> {<<"f", "o", "r", "m">>,
                   <<"a", "p", "p", "l", "i", "c", "a", "t", "i", "o", "n">>,
                   <<"f", "i", "l", "l">>,
                   <<"s", "i", "g", "n", "a", "t", "u", "r", "e">>}],
     [doc_type |-> <<"l", "e", "g", "a", "l">>,
      keywords |-> {<<"a", "g", "r", "e", "e", "m", "e", "n", "t">>,
                   <<"c", "o", "n", "t", "r", "a", "c", "t">>,
                   <<"h", "e", "r", "e", "b", "y">>,
                   <<"w", "h", "e", "r", "e", "a", "s">>,
                   <<"p", "a", "r", "t", "y">>}],
     [doc_type |-> <<"g", "a", "z", "e", "t", "t", "e">>,
      keywords |-> {<<"n", "o", "t", "i", "f", "i", "c", "a", "t", "i", "o", "n">>,
                   <<"g", "a", "z", "e", "t", "t", "e">>,
                   <<"g", "o", "v", "e", "r", "n", "m", "e", "n", "t", " ", "o", "r", "d", "e", "r">>}],
     [doc_type |-> <<"m", "a", "n", "u", "s", "c", "r", "i", "p", "t">>,
      keywords |-> {<<"c", "h", "a", "p", "t", "e", "r">>,
                   <<"p", "a", "g", "e">>,
                   <<"m", "a", "n", "u", "s", "c", "r", "i", "p", "t">>}],
     [doc_type |-> <<"a", "d", "m", "i", "n", "i", "s", "t", "r", "a", "t", "i", "v", "e">>,
      keywords |-> {<<"m", "e", "m", "o">>,
                   <<"m", "e", "m", "o", "r", "a", "n", "d", "u", "m">>,
                   <<"c", "i", "r", "c", "u", "l", "a", "r">>,
                   <<"o", "f", "f", "i", "c", "e", " ", "o", "r", "d", "e", "r">>}],
     [doc_type |-> <<"r", "e", "c", "e", "i", "p", "t">>,
      keywords |-> {<<"r", "e", "c", "e", "i", "p", "t">>,
                   <<"r", "e", "c", "e", "i", "v", "e", "d">>,
                   <<"p", "a", "i", "d">>}]>>

T_unknown == <<"u", "n", "k", "n", "o", "w", "n">>

\* A mutant of classify_document_type: among equal top scores the last
\* type of the dict wins.
classify_document_type_last_max(text) ==
    LET text_lower == lower(text)
        score == [i \in 1..Len(type_keywords) |->
                     Cardinality({k \in type_keywords[i].keywords :
                                     Contains(text_lower, k)})]
        scores == {i \in 1..Len(type_keywords) : score[i] > 0}
        top == CHOOSE i \in scores :
                  /\ \A j \in scores : score[j] <= score[i]
                  /\ \A j \in scores : j > i => score[j] < score[i]
    IN  IF scores # {} THEN type_keywords[top].doc_type ELSE T_unknown

\* classify_document_type: the score of a type is the number of its
\* keywords that occur in the lower-cased text; max(scores, key=scores.get)
\* is the first type of the dict, among those scored, that none exceeds.
classify_document_type(text) ==
    LET text_lower == lower(text)
        score == [i \in 1..Len(type_keywords) |->
                     Cardinality({k \in type_keywords[i].keywords :
                                     Contains(text_lower, k)})]
        scores == {i \in 1..Len(type_keywords) : score[i] > 0}
        top == CHOOSE i \in scores :
                  /\ \A j \in scores : score[j] <= score[i]
                  /\ \A j \in scores : j < i => score[j] < score[i]
    IN  IF scores # {} THEN type_keywords[top].doc_type ELSE T_unknown

extract_all(has_nlp, text) ==
    [dates |-> extract_dates(has_nlp, text),
     names |-> extract_names(has_nlp, text),
     organizations |-> extract_organizations(has_nlp, text),
     locations |-> extract_locations(has_nlp, text),
     emails |-> extract_emails(text),
     phone_numbers |-> extract_phone_numbers(text),
     reference_numbers |-> extract_reference_numbers(text),
     amounts |-> extract_amounts(has_nlp, text),
     document_type |-> classify_document_type(text)]

stopwords ==
    {<<"t", "h", "e">>,
     <<"a">>,
     <<"a", "n">>,
     <<"a", "n", "d">>,
     <<"o", "r">>,
     <<"b", "u", "t">>,
     <<"i", "n">>,
     <<"o", "n">>,
     <<"a", "t">>,
     <<"t", "o">>,
     <<"f", "o", "r">>,
     <<"o", "f">>,
     <<"w", "i", "t", "h">>,
     <<"b", "y">>}

\* A mutant of most_common: every distinct word is returned, whatever n.
most_common_all(words, n) == DedupInto(words, <<>>)

\* Counter(words).most_common(n): the n most frequent words, the most
\* frequent first; among equally frequent ones, those met first.
most_common(words, n) ==
    LET distinct == DedupInto(words, <<>>)
        count == [i \in 1..Len(distinct) |->
                     Cardinality({j \in 1..Len(words) : words[j] = distinct[i]})]
        rank == [i \in 1..Len(distinct) |->
                    Cardinality({j \in 1..Len(distinct) :
                        \/ count[j] > count[i]
                        \/ count[j] = count[i] /\ j < i})]
        m == IF Len(distinct) < n THEN Len(distinct) ELSE n
    IN  [k \in 1..m |->
            distinct[CHOOSE i \in 1..Len(distinct) : rank[i] = k - 1]]

generate_tags(text, metadata) ==
    LET words == split(lower(text))
        meaningful_words ==
            SelectSeq(words, LAMBDA w : Len(w) > 3 /\ w \notin stopwords)
    IN  list_set((IF metadata.document_type # <<>>
                  THEN <<metadata.document_type>> ELSE <<>>)
                 \o metadata.organizations
                 \o metadata.locations
                 \o most_common(meaningful_words, 5))

(***************************************************************************)
(* DocumentProcessor: the pipeline orchestrator.                           *)
(***************************************************************************)
\* datetime.now().isoformat(): the value is not modelled, only that the
\* record carries one.
Now == "datetime.now().isoformat()"

\* _generate_outputs: writes one file per requested format under
\* OUTPUT_DIR; write_fails says that the environment makes a write raise.
_generate_outputs(result, formats, write_fails) ==
    IF write_fails /\ Range(formats) \cap {"json", "txt", "csv"} # {}
    THEN "OSError" ELSE "none"

\* Lines 47-68 of process_document: the result dict built from the dict
\* extract_text returned.
ProcessingResult(has_nlp, image_path, ocr_result) ==
    LET metadata == extract_all(has_nlp, ocr_result.text)
        tags == generate_tags(ocr_result.text, metadata)
    IN  [file_name |-> image_path.file_name,
         file_path |-> image_path.file_name,
         processed_at |-> Now,
         ocr |-> [text |-> ocr_result.text,
                  confidence |-> ocr_result.confidence,
                  engine |-> ocr_result.engine,
                  word_count |-> ocr_result.word_count],
         metadata |-> metadata,
         tags |-> tags,
         document_type |-> ocr_result.document_type,
         quality_metrics |-> ocr_result.quality_metrics]

\* A mutant of StoreAndWrite: the result is stored at the front of the
\* ledger.
StoreFirstAndWrite(ledger, output_formats, write_fails, result) ==
    [exc |-> "none", result |-> result, ledger |-> <<result>> \o ledger]

\* Lines 70-78 of process_document: the result is appended to the ledger,
\* then the output files are written, then the result is returned.  A
\* failing write leaves the result in the ledger.
StoreAndWrite(ledger, output_formats, write_fails, result) ==
    LET written == IF output_formats # <<>>
                   THEN _generate_outputs(result, output_formats, write_fails)
                   ELSE "none"
    IN  [exc |-> written,
         result |-> IF written = "none" THEN result ELSE <<>>,
         ledger |-> Append(ledger, result)]

\* process_document from the outcome of its extract_text call on.
AfterExtractText(has_nlp, ledger, image_path, output_formats, write_fails, ocr) ==
    IF ocr.exc # "none"
    THEN [exc |-> ocr.exc, invoked |-> ocr.invoked, result |-> <<>>,
          ledger |-> ledger]
    ELSE [invoked |-> ocr.invoked]
         @@ StoreAndWrite(ledger, output_formats, write_fails,
                          ProcessingResult(has_nlp, image_path, ocr.result))

\* process_document: exc, the backends invoked, the dict returned and the
\* ledger afterwards.
process_document(engs, has_nlp, ledger, image_path, output_formats, write_fails) ==
    AfterExtractText(has_nlp, ledger, image_path, output_formats, write_fails,
                     extract_text(engs, image_path, "None", TRUE))

\* The record process_batch stores for a path whose processing raised.
ErrorRecord(path, e) ==
    [file_name |-> path.file_name, file_path |-> path.file_name,
     error |-> e, processed_at |-> Now]

\* A mutant of LoopBody: no try/except around process_document, so a
\* failing path ends the batch: the exception leaves process_batch and no
\* list is returned.
LoopBodyAbort(acc, path, r) ==
    IF acc.exc # "none" THEN acc
    ELSE IF r.exc # "none"
    THEN [exc |-> r.exc, results |-> <<>>,
          invoked |-> Append(acc.invoked, r.invoked), ledger |-> r.ledger]
    ELSE [exc |-> "none", results |-> Append(acc.results, r.result),
          invoked |-> Append(acc.invoked, r.invoked), ledger |-> r.ledger]

\* One turn of the for loop of process_batch: r is the outcome of
\* process_document on path; its result, or the error record of its
\* exception, is appended to results.
LoopBody(acc, path, r) ==
    [exc |-> "none",
     results |-> Append(acc.results,
                        IF r.exc = "none" THEN r.result
                        ELSE ErrorRecord(path, r.exc)),
     invoked |-> Append(acc.invoked, r.invoked),
     ledger |-> r.ledger]

\* The for loop of process_batch, from the results acc gathered so far.
RECURSIVE Loop(_, _, _, _, _, _)
Loop(engs, has_nlp, acc, image_paths, output_formats, disk) ==
    IF image_paths = <<>> THEN acc
    ELSE Loop(engs, has_nlp,
              LoopBody(acc, Head(image_paths),
                       process_document(engs, has_nlp, acc.ledger,
                                        Head(image_paths), output_formats,
                                        Head(disk))),
              Tail(image_paths), output_formats, Tail(disk))

\* process_batch: the list returned, the backends invoked for each path and
\* the ledger afterwards.  disk[i] says whether writing the outputs of the
\* i-th path raises.
process_batch(engs, has_nlp, ledger, image_paths, output_formats, disk) ==
    Loop(engs, has_nlp,
         [exc |-> "none", results |-> <<>>, invoked |-> <<>>, ledger |-> ledger],
         image_paths, output_formats, disk)

\* round(x, 2) of the quotient num / den of hundredths: to the nearest
\* hundredth, a tie going to the even one.
RoundHalfEven(num, den) ==
    LET q == num \div den
        r == num % den
    IN  IF 2 * r < den THEN q
        ELSE IF 2 * r > den THEN q + 1
        ELSE IF q % 2 = 0 THEN q ELSE q + 1

EmptyDict == <<>>

\* The histogram loop of get_statistics.
RECURSIVE CountTypes(_, _)
CountTypes(docs, doc_types) ==
    IF docs = <<>> THEN doc_types
    ELSE LET doc_type == Head(docs).document_type
         IN  CountTypes(Tail(docs),
                 IF doc_type \in DOMAIN doc_types
                 THEN [doc_types EXCEPT ![doc_type] = @ + 1]
                 ELSE (doc_type :> 1) @@ doc_types)

\* A mutant of get_statistics: an empty ledger is given the aggregates too,
\* with a mean of 0.
get_statistics_always_aggregates(ledger) ==
    LET good == SelectSeq(ledger, LAMBDA doc : "error" \notin DOMAIN doc)
        total_docs == Len(ledger)
        total_words == SumSeq([i \in 1..Len(good) |-> good[i].ocr.word_count])
        conf_sum == SumSeq([i \in 1..Len(good) |-> good[i].ocr.confidence])
    IN  [total_documents |-> total_docs,
         total_words |-> total_words,
         average_confidence |->
             IF total_docs = 0 THEN 0 ELSE RoundHalfEven(conf_sum, total_docs),
         document_types |-> CountTypes(good, EmptyDict)]

get_statistics(ledger) ==
    LET good == SelectSeq(ledger, LAMBDA doc : "error" \notin DOMAIN doc)
        total_docs == Len(ledger)
        total_words == SumSeq([i \in 1..Len(good) |-> good[i].ocr.word_count])
        conf_sum == SumSeq([i \in 1..Len(good) |-> good[i].ocr.confidence])
    IN  IF ledger = <<>> THEN EmptyDict
        ELSE [total_documents |-> total_docs,
              total_words |-> total_words,
              average_confidence |-> RoundHalfEven(conf_sum, total_docs),
              document_types |-> CountTypes(good, EmptyDict)]

\* The metadata entries whose value is a list (isinstance(values, list)):
\* all but document_type, which is a str.
ListFields ==
    {"dates", "names", "organizations", "locations", "emails",
     "phone_numbers", "reference_numbers", "amounts"}

\* any(query_lower in str(v).lower() for v in values)
AnyContains(values, query_lower) ==
    \E i \in 1..Len(values) : Contains(lower(values[i]), query_lower)

\* A mutant of search_documents: without continue and break, a document is
\* appended once for every place it matches in.
search_documents_every_hit(ledger, query) ==
    Concat([i \in 1..Len(ledger) |->
        (IF Contains(lower(ledger[i].ocr.text), lower(query))
         THEN <<ledger[i]>> ELSE <<>>)
        \o (IF AnyContains(ledger[i].tags, lower(query))
            THEN <<ledger[i]>> ELSE <<>>)
        \o (IF AnyContains(ledger[i].metadata.names, lower(query))
            THEN <<ledger[i]>> ELSE <<>>)])

\* A mutant of search_documents: only the recognized text is searched.
search_documents_text_only(ledger, query) ==
    SelectSeq(ledger, LAMBDA doc : Contains(lower(doc.ocr.text), lower(query)))

\* search_documents: the documents of the ledger, in ledger order, that
\* match in their text, else in a tag, else in a list-valued metadata entry.
search_documents(ledger, query) ==
    SelectSeq(ledger, LAMBDA doc :
        \/ Contains(lower(doc.ocr.text), lower(query))
        \/ AnyContains(doc.tags, lower(query))
        \/ \E key \in ListFields : AnyContains(doc.metadata[key], lower(query)))

(***************************************************************************)
(* Construction: DocumentProcessor.__init__ builds the MultiEngineOCR      *)
(* (and so the registry), then the MetadataExtractor, then the empty       *)
(* ledger.                                                                 *)
(***************************************************************************)
ProcessorEnvs ==
    [ocr : Envs,
     spacy_available : BOOLEAN, ner_enabled : BOOLEAN, load_raises : BOOLEAN]

\* MetadataExtractor.__init__: nlp stays None unless spaCy imported, NER is
\* enabled and the model loads.
MetadataExtractor_init(env) ==
    env.spacy_available /\ env.ner_enabled /\ ~env.load_raises

Construct(env) ==
    /\ op = "new"
    /\ \E r \in {_initialize_engines(env.ocr)} :
           /\ engines' = IF r.exc = "none" THEN r.engines ELSE <<>>
           /\ nlp' = IF r.exc = "none" THEN MetadataExtractor_init(env) ELSE FALSE
           /\ ret' = [exc |-> r.exc]
    /\ processed_documents' = <<>>
    /\ returned' = <<>>
    /\ op' = "init"
    /\ call' = env
    /\ UNCHANGED <<hashseed, ner>>

\* A processor exists: construction returned.
Ready == op # "new" /\ engines # <<>>

(***************************************************************************)
(* The files the orchestrator is run on (the upload directory): an invoice *)
(* with compact contours that every backend reads, a letter with ragged    *)
(* contours on which EasyOCR raises, and a file that cv2.imread cannot     *)
(* decode.                                                                 *)
(***************************************************************************)
ReadInvoice ==
    [raises |-> FALSE, text |-> <<"I", "n", "v", "o", "i", "c", "e", " ">>,
     confidence |-> 50]

ReadLetter ==
    [raises |-> FALSE, text |-> <<"D", "e", "a", "r", " ", "S", "i", "r">>,
     confidence |-> 90]

Uploads ==
    {Image("invoice.png", TRUE, <<[area |-> 100, perimeter |-> 40]>>, SharpPixels,
           [e \in EngineIds |-> ReadInvoice]),
     Image("letter.jpg", TRUE, <<[area |-> 11, perimeter |-> 40]>>, SharpPixels,
           [e \in EngineIds |-> IF e = "easyocr" THEN Raises ELSE ReadLetter]),
     Image("broken.png", FALSE, <<>>, SharpPixels,
           [e \in EngineIds |-> Raises])}

\* output_formats: none, or the API's default.
FormatLists == {<<>>, <<"json", "txt">>}

(***************************************************************************)
(* Operations of the orchestrator.                                         *)
(***************************************************************************)
\* A mutant of ProcessDocument: the backends are initialised again for the
\* document, and only Tesseract comes up.
ProcessDocumentInitializingAgain(image_path, output_formats, write_fails) ==
    /\ Ready
    /\ Len(processed_documents) < MaxLedger
    /\ \E r \in {process_document(<<"tesseract">>, nlp, processed_documents,
                                   image_path, output_formats, write_fails)} :
           /\ processed_documents' = r.ledger
           /\ returned' = IF r.exc = "none" THEN Append(returned, r.result)
                          ELSE returned
           /\ ret' = [exc |-> r.exc, result |-> r.result, invoked |-> r.invoked]
    /\ op' = "process_document"
    /\ call' = [image_path |-> image_path, output_formats |-> output_formats,
                write_fails |-> write_fails]
    /\ engines' = <<"tesseract">>
    /\ UNCHANGED <<hashseed, ner, nlp>>

ProcessDocument(image_path, output_formats, write_fails) ==
    /\ Ready
    /\ Len(processed_documents) < MaxLedger
    /\ \E r \in {process_document(engines, nlp, processed_documents, image_path,
                                   output_formats, write_fails)} :
           /\ processed_documents' = r.ledger
           /\ returned' = IF r.exc = "none" THEN Append(returned, r.result)
                          ELSE returned
           /\ ret' = [exc |-> r.exc, result |-> r.result, invoked |-> r.invoked]
    /\ op' = "process_document"
    /\ call' = [image_path |-> image_path, output_formats |-> output_formats,
                write_fails |-> write_fails]
    /\ UNCHANGED <<hashseed, ner, engines, nlp>>

ProcessBatch(image_paths, output_formats, disk) ==
    /\ Ready
    /\ Len(processed_documents) + Len(image_paths) <= MaxLedger
    /\ \E r \in {process_batch(engines, nlp, processed_documents, image_paths,
                                output_formats, disk)} :
           /\ processed_documents' = r.ledger
           /\ returned' = returned
                  \o SelectSeq(r.results, LAMBDA d : "error" \notin DOMAIN d)
           /\ ret' = [exc |-> r.exc, results |-> r.results, invoked |-> r.invoked]
    /\ op' = "process_batch"
    /\ call' = [image_paths |-> image_paths, output_formats |-> output_formats,
                disk |-> disk]
    /\ UNCHANGED <<hashseed, ner, engines, nlp>>

GetStatistics ==
    /\ Ready
    /\ op' = "get_statistics"
    /\ call' = <<>>
    /\ ret' = [exc |-> "none", stats |-> get_statistics(processed_documents)]
    /\ UNCHANGED <<hashseed, ner, engines, nlp, processed_documents, returned>>

\* The queries tried: "", "InVoice", "LETTER", "sir".
Queries ==
    {<<>>,
     <<"I", "n", "V", "o", "i", "c", "e">>,
     <<"L", "E", "T", "T", "E", "R">>,
     <<"s", "i", "r">>}

SearchDocuments(query) ==
    /\ Ready
    /\ op' = "search_documents"
    /\ call' = [query |-> query]
    /\ ret' = [exc |-> "none",
               results |-> search_documents(processed_documents, query)]
    /\ UNCHANGED <<hashseed, ner, engines, nlp, processed_documents, returned>>

(***************************************************************************)
(* Operations of the selector and the arbiter, called on their own.        *)
(***************************************************************************)
\* The document_type arguments tried: the four classes, the omitted
\* argument and a string that is no class.
DocumentTypeArgs == DocumentClasses \cup {"None", "receipt"}

SelectEngine(args) ==
    /\ Ready
    /\ op' = "_select_engine"
    /\ ret' = [exc |-> "none", engine |-> _select_engine(engines, args.document_type)]
    /\ UNCHANGED <<hashseed, ner, engines, nlp, processed_documents, returned, call>>

\* _ocr_ensemble is handed a raster: the file was decoded.
OcrEnsemble(args) ==
    /\ Ready
    /\ args.image_path.decodable
    /\ op' = "_ocr_ensemble"
    /\ ret' = _ocr_ensemble(engines, args.image_path)
    /\ UNCHANGED <<hashseed, ner, engines, nlp, processed_documents, returned, call>>

ExtractText(args) ==
    /\ Ready
    /\ op' = "extract_text"
    /\ ret' = extract_text(engines, args.image_path, args.document_type,
                           args.preprocess)
    /\ UNCHANGED <<hashseed, ner, engines, nlp, processed_documents, returned, call>>

(***************************************************************************)
(* The metadata extractor called on its own.                               *)
(***************************************************************************)
\* Hash seeds an interpreter may start with (PYTHONHASHSEED is drawn at
\* random at every start).
HashSeeds == {0, 1}

\* extractor.extract_all(text); returned keeps what the last call of
\* extract_all was given and answered, and the answer carries it as
\* previous for comparison.
ExtractAll(text) ==
    /\ op' = "extract_all"
    /\ call' = [text |-> text]
    /\ \E m \in {extract_all(nlp, text)} :
           /\ ret' = [exc |-> "none", metadata |-> m, previous |-> returned]
           /\ returned' = <<[text |-> text, metadata |-> m]>>
    /\ UNCHANGED <<hashseed, ner, engines, nlp, processed_documents>>

\* extractor.generate_tags(text): metadata is None, so extract_all(text)
\* is taken.
GenerateTags(text) ==
    /\ op' = "generate_tags"
    /\ call' = [text |-> text]
    /\ \E m \in {extract_all(nlp, text)} :
           ret' = [exc |-> "none", metadata |-> m, tags |-> generate_tags(text, m)]
    /\ UNCHANGED <<hashseed, ner, engines, nlp, processed_documents, returned>>

\* extractor.classify_document_type(text)
ClassifyDocumentType(text) ==
    /\ op' = "classify_document_type"
    /\ call' = [text |-> text]
    /\ ret' = [exc |-> "none", document_type |-> classify_document_type(text)]
    /\ UNCHANGED <<hashseed, ner, engines, nlp, processed_documents, returned>>

\* The interpreter is started anew: the extractor is built again from the
\* same installation, under a fresh hash seed.
Restart ==
    /\ op' = "restart"
    /\ hashseed' \in HashSeeds
    /\ call' = [text |-> T_empty]
    /\ ret' = [exc |-> "none"]
    /\ UNCHANGED <<ner, engines, nlp, processed_documents, returned>>

(***************************************************************************)
(* The image preprocessor called on its own.                               *)
(***************************************************************************)
\* Grey-level statistics around the cutoffs of assess_quality.
PixelStats ==
    [sharpness : {99, 100, 101},
     brightness : {49, 50, 51, 199, 200, 201},
     contrast : {29, 30, 31}]

\* Contour lists around the cutoffs of detect_document_type: a mean of
\* exactly 100, of exactly 50, an area of exactly 10, and a ragged contour
\* too small to count next to a compact one.
CutoffContourLists ==
    {<<[area |-> 15, perimeter |-> 40]>>,
     <<[area |-> 31, perimeter |-> 40]>>,
     <<[area |-> 10, perimeter |-> 100]>>,
     <<[area |-> 5, perimeter |-> 100], [area |-> 100, perimeter |-> 40]>>}

\* What every recognizer reads on the rasters of the preprocessor.
ReadsNothing == [e \in EngineIds |-> [raises |-> FALSE, text |-> <<>>, confidence |-> 0]]

\* The decoded rasters the preprocessor is exercised on.
Rasters ==
    {Image("scan.png", TRUE, c, SharpPixels, ReadsNothing) :
        c \in ContourLists \cup CutoffContourLists}
    \cup {Image("scan.png", TRUE, <<>>, pix, ReadsNothing) : pix \in PixelStats}

\* The files preprocess is given: one that decodes and one that does not.
Files ==
    {Image("scan.png", d, <<>>, SharpPixels, ReadsNothing) : d \in BOOLEAN}

OperationKeys == {"denoise", "deskew", "remove_shadows", "enhance_contrast"}

\* The values of the operations argument: None, and the dicts over the
\* four options, every subset of them in every order.
OperationArgs ==
    {None} \cup
    {Dict(items) : items \in
        {s \in UNION {[1..n -> [key : OperationKeys, value : BOOLEAN]] :
                          n \in 0..Cardinality(OperationKeys)} :
            \A i, j \in 1..Len(s) : s[i].key = s[j].key => i = j}}

\* preprocessor.preprocess(image_path, operations)
Preprocess(image_path, operations) ==
    /\ op' = "preprocess"
    /\ call' = [image_path |-> image_path, operations |-> operations]
    /\ ret' = preprocess(image_path, operations)
    /\ UNCHANGED <<hashseed, ner, engines, nlp, processed_documents, returned>>

\* The angles, in tenths of a degree, cv2.minAreaRect may report: [-90, 0)
\* in the older releases of OpenCV, (0, 90] in the newer ones.
RectAngles ==
    {-900, -899, -451, -450, -449, -6, -5, -4, -1, 0, 1, 4, 5, 6, 449, 450, 451,
     899, 900}

\* The rasters deskew is exercised on.
SkewedRasters == [foreground : BOOLEAN, rect_angle : RectAngles]

\* preprocessor.deskew(image)
Deskew(image) ==
    /\ op' = "deskew"
    /\ call' = [image |-> image]
    /\ ret' = [exc |-> "none"] @@ deskew(image)
    /\ UNCHANGED <<hashseed, ner, engines, nlp, processed_documents, returned>>

\* preprocessor.assess_quality(image), on a decoded raster
AssessQuality(image) ==
    /\ image.decodable
    /\ op' = "assess_quality"
    /\ call' = [image |-> image]
    /\ ret' = [exc |-> "none"] @@ assess_quality(image)
    /\ UNCHANGED <<hashseed, ner, engines, nlp, processed_documents, returned>>

\* preprocessor.detect_document_type(image), on a decoded raster
DetectDocumentType(image) ==
    /\ image.decodable
    /\ op' = "detect_document_type"
    /\ call' = [image |-> image]
    /\ ret' = [exc |-> "none", document_type |-> detect_document_type(image)]
    /\ UNCHANGED <<hashseed, ner, engines, nlp, processed_documents, returned>>

(***************************************************************************)
(* extract_text and the rest of process_document, statement by statement.  *)
(* op is the position reached in the code and ret the frame: the local     *)
(* variables assigned so far, exc, and the backends invoked.               *)
(***************************************************************************)
\* image = cv2.imread(image_path); a file that does not decode raises.
Imread ==
    /\ op = "init"
    /\ op' = IF call.image_path.decodable THEN "imread" ELSE "raised"
    /\ ret' = IF call.image_path.decodable
              THEN [exc |-> "none", invoked |-> <<>>, image |-> call.image_path]
              ELSE [exc |-> "ValueError", invoked |-> <<>>]
    /\ UNCHANGED <<hashseed, ner, engines, nlp, processed_documents, returned, call>>

\* if preprocess: image = self.preprocessor.preprocess(image_path)
PreprocessStep ==
    /\ op = "imread"
    /\ op' = "preprocess"
    /\ ret' = IF call.preprocess
              THEN [ret EXCEPT !.image = preprocess(call.image_path, None).image]
              ELSE ret
    /\ UNCHANGED <<hashseed, ner, engines, nlp, processed_documents, returned, call>>

\* if document_type is None: document_type = detect_document_type(image)
DetectStep ==
    /\ op = "preprocess"
    /\ op' = "detect_document_type"
    /\ ret' = [document_type |->
                  IF call.document_type = "None"
                  THEN detect_document_type(ret.image) ELSE call.document_type]
              @@ ret
    /\ UNCHANGED <<hashseed, ner, engines, nlp, processed_documents, returned, call>>

\* quality_metrics = self.preprocessor.assess_quality(image)
AssessStep ==
    /\ op = "detect_document_type"
    /\ op' = "assess_quality"
    /\ ret' = [quality_metrics |-> assess_quality(ret.image)] @@ ret
    /\ UNCHANGED <<hashseed, ner, engines, nlp, processed_documents, returned, call>>

\* engine = self._select_engine(document_type)
SelectStep ==
    /\ op = "assess_quality"
    /\ op' = "_select_engine"
    /\ ret' = [engine |-> _select_engine(engines, ret.document_type)] @@ ret
    /\ UNCHANGED <<hashseed, ner, engines, nlp, processed_documents, returned, call>>

\* The if / elif chain on engine: the backend of that id, or the ensemble.
RecognizeStep ==
    /\ op = "_select_engine"
    /\ \E r \in {IF ret.engine \in {"tesseract", "easyocr", "paddle"}
                 THEN [invoked |-> <<ret.engine>>] @@ recognize(ret.engine, ret.image)
                 ELSE _ocr_ensemble(engines, ret.image)} :
           /\ op' = IF r.exc = "none" THEN "recognize" ELSE "raised"
           /\ ret' = IF r.exc = "none"
                     THEN [result |-> r.result]
                          @@ [ret EXCEPT !.invoked = r.invoked]
                     ELSE [ret EXCEPT !.invoked = r.invoked, !.exc = r.exc]
    /\ UNCHANGED <<hashseed, ner, engines, nlp, processed_documents, returned, call>>

\* A mutant of ReturnStep: the class written into the result is detected
\* anew on the raster.
ReturnStepDetectingAgain ==
    /\ op = "recognize"
    /\ op' = "return"
    /\ ret' = [ret EXCEPT !.result =
                  [document_type |-> detect_document_type(ret.image),
                   quality_metrics |-> ret.quality_metrics,
                   engine_used |-> ret.engine,
                   image_path |-> call.image_path.file_name] @@ ret.result]
    /\ UNCHANGED <<hashseed, ner, engines, nlp, processed_documents, returned, call>>

\* result["document_type"] = document_type, and so on; return result
ReturnStep ==
    /\ op = "recognize"
    /\ op' = "return"
    /\ ret' = [ret EXCEPT !.result =
                  [document_type |-> ret.document_type,
                   quality_metrics |-> ret.quality_metrics,
                   engine_used |-> ret.engine,
                   image_path |-> call.image_path.file_name] @@ ret.result]
    /\ UNCHANGED <<hashseed, ner, engines, nlp, processed_documents, returned, call>>

\* process_document, which called extract_text(image_path, preprocess=True),
\* goes on: metadata, tags and the combined result.
CombineStep ==
    /\ op = "return"
    /\ call.document_type = "None"
    /\ call.preprocess
    /\ op' = "process_document"
    /\ ret' = [processing_result |->
                  ProcessingResult(nlp, call.image_path, ret.result)] @@ ret
    /\ UNCHANGED <<hashseed, ner, engines, nlp, processed_documents, returned, call>>

(***************************************************************************)
(* get_statistics, statement by statement, on a processor that another     *)
(* request thread is processing documents with.  op is the position of the *)
(* statistics thread and ret its frame; each statement reads the ledger at *)
(* once.                                                                   *)
(***************************************************************************)
\* The other thread: process_document on an upload, whose one effect on
\* the shared processor is the append of its result to the ledger.
ProcessDocumentConcurrently(image_path) ==
    /\ Len(processed_documents) < MaxLedger
    /\ \E r \in {process_document(engines, nlp, processed_documents, image_path,
                                   <<>>, FALSE)} :
           /\ r.exc = "none"
           /\ processed_documents' = r.ledger
           /\ returned' = Append(returned, r.result)
    /\ UNCHANGED <<hashseed, ner, engines, nlp, op, call, ret>>

\* if not self.processed_documents: return {}
StatsIfEmpty ==
    /\ op = "init"
    /\ op' = IF processed_documents = <<>> THEN "return" ELSE "if"
    /\ ret' = IF processed_documents = <<>>
              THEN [exc |-> "none", stats |-> EmptyDict]
              ELSE [exc |-> "none"]
    /\ UNCHANGED <<hashseed, ner, engines, nlp, processed_documents, returned, call>>

\* total_docs = len(self.processed_documents)
StatsTotalDocs ==
    /\ op = "if"
    /\ op' = "total_docs"
    /\ ret' = [total_docs |-> Len(processed_documents)] @@ ret
    /\ UNCHANGED <<hashseed, ner, engines, nlp, processed_documents, returned, call>>

\* total_words = sum(doc["ocr"]["word_count"] for doc in ...)
StatsTotalWords ==
    /\ op = "total_docs"
    /\ op' = "total_words"
    /\ \E good \in {SelectSeq(processed_documents,
                              LAMBDA doc : "error" \notin DOMAIN doc)} :
           ret' = [total_words |->
                      SumSeq([i \in 1..Len(good) |-> good[i].ocr.word_count])]
                  @@ ret
    /\ UNCHANGED <<hashseed, ner, engines, nlp, processed_documents, returned, call>>

\* avg_confidence = sum(doc["ocr"]["confidence"] for doc in ...) / total_docs
StatsAvgConfidence ==
    /\ op = "total_words"
    /\ op' = "avg_confidence"
    /\ \E good \in {SelectSeq(processed_documents,
                              LAMBDA doc : "error" \notin DOMAIN doc)} :
           ret' = [avg_confidence |->
                      [num |-> SumSeq([i \in 1..Len(good) |->
                                          good[i].ocr.confidence]),
                       den |-> ret.total_docs]] @@ ret
    /\ UNCHANGED <<hashseed, ner, engines, nlp, processed_documents, returned, call>>

\* The histogram loop.
StatsDocTypes ==
    /\ op = "avg_confidence"
    /\ op' = "doc_types"
    /\ \E good \in {SelectSeq(processed_documents,
                              LAMBDA doc : "error" \notin DOMAIN doc)} :
           ret' = [doc_types |-> CountTypes(good, EmptyDict)] @@ ret
    /\ UNCHANGED <<hashseed, ner, engines, nlp, processed_documents, returned, call>>

\* return {...}
StatsReturn ==
    /\ op = "doc_types"
    /\ op' = "return"
    /\ ret' = [exc |-> "none",
               stats |-> [total_documents |-> ret.total_docs,
                          total_words |-> ret.total_words,
                          average_confidence |->
                              RoundHalfEven(ret.avg_confidence.num,
                                            ret.avg_confidence.den),
                          document_types |-> ret.doc_types]]
    /\ UNCHANGED <<hashseed, ner, engines, nlp, processed_documents, returned, call>>

(***************************************************************************)
(* The backends' confidence, on what the recognizer reports.               *)
(***************************************************************************)
OcrTesseract(args) ==
    /\ args.engine = "tesseract"
    /\ op' = "_ocr_tesseract"
    /\ ret' = [exc |-> "none", confidence |-> tesseract_confidence(args.conf)]
    /\ UNCHANGED <<hashseed, ner, engines, nlp, processed_documents, returned, call>>

OcrEasyocr(args) ==
    /\ args.engine = "easyocr"
    /\ op' = "_ocr_easyocr"
    /\ ret' = [exc |-> "none", confidence |-> mean_confidence(args.conf)]
    /\ UNCHANGED <<hashseed, ner, engines, nlp, processed_documents, returned, call>>

OcrPaddle(args) ==
    /\ args.engine = "paddle"
    /\ op' = "_ocr_paddle"
    /\ ret' = [exc |-> "none", confidence |-> mean_confidence(args.conf)]
    /\ UNCHANGED <<hashseed, ner, engines, nlp, processed_documents, returned, call>>

(***************************************************************************)
(* Specifications.                                                         *)
(***************************************************************************)
\* The registries construction can leave behind.
Registries ==
    {_initialize_engines(env).engines : env \in Envs} \ {<<>>}

\* Construction: from no processor to a processor, or to RuntimeError.
InitNew ==
    /\ engines = <<>>
    /\ nlp = FALSE
    /\ processed_documents = <<>>
    /\ returned = <<>>
    /\ op = "new"
    /\ call = <<>>
    /\ ret = <<>>
    /\ hashseed = 0
    /\ ner = "none"

DoConstruct == \E env \in ProcessorEnvs : Construct(env)

NextRegistry == DoConstruct

SpecRegistry == InitNew /\ [][NextRegistry]_vars

\* The orchestrator, from a processor as construction leaves it: a
\* registry, no NER model (spaCy absent), an empty ledger.
Init ==
    /\ engines \in Registries
    /\ nlp = FALSE
    /\ processed_documents = <<>>
    /\ returned = <<>>
    /\ op = "init"
    /\ call = <<>>
    /\ ret = [exc |-> "none"]
    /\ hashseed = 0
    /\ ner = "none"

DoProcessDocument ==
    \E image_path \in Uploads, output_formats \in FormatLists, write_fails \in BOOLEAN :
        /\ (output_formats = <<>> => ~write_fails)
        /\ ProcessDocument(image_path, output_formats, write_fails)

DoProcessBatch ==
    \E image_paths \in SeqsUpTo(Uploads, MaxBatch), output_formats \in FormatLists :
        \E disk \in [1..Len(image_paths) -> BOOLEAN] :
            /\ (output_formats = <<>> => \A i \in 1..Len(disk) : ~disk[i])
            /\ ProcessBatch(image_paths, output_formats, disk)

DoSearchDocuments == \E query \in Queries : SearchDocuments(query)

Next ==
    \/ DoProcessDocument
    \/ DoProcessBatch
    \/ GetStatistics
    \/ DoSearchDocuments

Spec == Init /\ [][Next]_vars

\* The selector, the arbiter and extract_text as functions of the registry
\* and of their arguments: each behaviour draws a registry and the
\* arguments, and makes one call.
InitArbiter ==
    /\ engines \in Registries
    /\ nlp = FALSE
    /\ processed_documents = <<>>
    /\ returned = <<>>
    /\ op = "init"
    /\ call \in [image_path : Images, document_type : DocumentTypeArgs,
                 preprocess : BOOLEAN]
    /\ ret = [exc |-> "none"]
    /\ hashseed = 0
    /\ ner = "none"

DoSelectEngine == op = "init" /\ SelectEngine(call)

DoOcrEnsemble == op = "init" /\ OcrEnsemble(call)

DoExtractText == op = "init" /\ ExtractText(call)

NextArbiter ==
    \/ DoSelectEngine
    \/ DoOcrEnsemble
    \/ DoExtractText

SpecArbiter == InitArbiter /\ [][NextArbiter]_vars

(***************************************************************************)
(* Properties.                                                             *)
(***************************************************************************)
\* The largest and the smallest of a non-empty set of integers.
Max(S) == CHOOSE x \in S : \A y \in S : y <= x

Min(S) == CHOOSE x \in S : \A y \in S : x <= y

\* The sum of the values of a function with a finite domain.
RECURSIVE SumValues(_)
SumValues(f) ==
    IF DOMAIN f = {} THEN 0
    ELSE LET k == CHOOSE x \in DOMAIN f : TRUE
         IN  f[k] + SumValues([x \in DOMAIN f \ {k} |-> f[x]])

\* C1. process_batch returns exactly one record per input path, in input
\* order, and does not raise: a path whose processing raises yields an
\* error record (file name, error, timestamp) in its position, and every
\* other path yields the result process_document gives for it.
C1_BatchOneRecordPerInput ==
    op = "process_batch" =>
        /\ ret.exc = "none"
        /\ Len(ret.results) = Len(call.image_paths)
        /\ \A i \in 1..Len(call.image_paths) :
              LET path == call.image_paths[i]
                  alone == process_document(engines, nlp, <<>>, path,
                                            call.output_formats, call.disk[i])
              IN  IF alone.exc = "none"
                  THEN ret.results[i] = alone.result
                  ELSE ret.results[i] =
                           [file_name |-> path.file_name,
                            file_path |-> path.file_name,
                            error |-> alone.exc,
                            processed_at |-> Now]

\* A batch whose first path cannot be decoded and whose second path is
\* processed.
C1_Witness ==
    /\ op = "process_batch"
    /\ Len(call.image_paths) = 2
    /\ ~call.image_paths[1].decodable
    /\ "error" \in DOMAIN ret.results[1]
    /\ "error" \notin DOMAIN ret.results[2]

\* C2. In ensemble mode a backend that raises does not abort the call: its
\* result is left out and the highest-confidence result among the backends
\* that succeeded is returned.
C2_EnsembleSurvivesRaisingBackend ==
    op = "_ocr_ensemble" =>
        LET image == call.image_path
            succeeded == {e \in Range(engines) : ~image.ocr[e].raises}
        IN  (succeeded # {} /\ succeeded # Range(engines)) =>
                /\ ret.exc = "none"
                /\ ret.result.confidence =
                       Max({image.ocr[e].confidence : e \in succeeded})

\* C3. In single-engine mode, when the selected engine raises, extract_text
\* falls back to the next engine of the class's priority list that is
\* registered (here: one that reads the image) instead of raising.
C3_SingleEngineFallsBack ==
    (op = "extract_text" /\ call.image_path.decodable) =>
        LET image == call.image_path
            dt == IF call.document_type = "None"
                  THEN detect_document_type(image) ELSE call.document_type
            listed == SelectSeq(priority(dt), LAMBDA e : e \in Range(engines))
        IN  (Len(listed) >= 2 /\ image.ocr[listed[1]].raises
                /\ ~image.ocr[listed[2]].raises) =>
                /\ ret.exc = "none"
                /\ ret.result.engine = listed[2]

\* C4. When every registered backend raises on an image, the outcome of
\* the arbiter (and of extract_text on a decodable image) is the sentinel
\* result, confidence 0 and empty text, and no exception.
C4_AllBackendsFailGivesSentinel ==
    ((op = "_ocr_ensemble" \/ (op = "extract_text" /\ call.image_path.decodable))
        /\ \A e \in Range(engines) : call.image_path.ocr[e].raises) =>
        /\ ret.exc = "none"
        /\ ret.result.confidence = 0
        /\ ret.result.text = <<>>

\* C5. process_document on a file that cannot be decoded raises the
\* image-load error (ValueError) before any backend is invoked and leaves
\* the ledger as it was; in a batch such a path gets an error record, no
\* backend is invoked for it, and the ledger grows by at most the number of
\* decodable paths.
C5_UndecodableFailsBeforeRecognition ==
    [][/\ (op' = "process_document" /\ ~call'.image_path.decodable) =>
              /\ ret'.exc = "ValueError"
              /\ ret'.invoked = <<>>
              /\ processed_documents' = processed_documents
       /\ op' = "process_batch" =>
              /\ \A i \in 1..Len(call'.image_paths) :
                    ~call'.image_paths[i].decodable =>
                        /\ ret'.invoked[i] = <<>>
                        /\ "error" \in DOMAIN ret'.results[i]
                        /\ ret'.results[i].error = "ValueError"
              /\ Len(processed_documents') - Len(processed_documents)
                     <= Cardinality({i \in 1..Len(call'.image_paths) :
                                        call'.image_paths[i].decodable})
      ]_vars

\* An undecodable file handed to process_document when the ledger already
\* holds a document.
C5_Witness ==
    /\ op = "process_document"
    /\ ~call.image_path.decodable
    /\ ret.exc = "ValueError"
    /\ processed_documents # <<>>

\* C6. Construction registers exactly the backends that are available,
\* enabled and whose constructor does not raise; it succeeds when at least
\* one registers and raises RuntimeError exactly when none does.
C6_RegistryFailsSoft ==
    op = "init" =>
        LET env == call.ocr
            registers(e) ==
                /\ env.available[e]
                /\ env.enabled[e]
                /\ (e \in {"easyocr", "paddle"} => ~env.init_raises[e])
            registered == {e \in EngineIds : registers(e)}
        IN  /\ ret.exc = (IF registered = {} THEN "RuntimeError" ELSE "none")
            /\ Range(engines) = registered
            /\ Len(engines) = Cardinality(registered)

\* Construction succeeds although the EasyOCR constructor raised.
C6_Witness ==
    /\ op = "init"
    /\ ret.exc = "none"
    /\ call.ocr.available["easyocr"]
    /\ call.ocr.enabled["easyocr"]
    /\ call.ocr.init_raises["easyocr"]
    /\ engines = <<"tesseract", "paddle">>

\* C7. _select_engine returns the first engine of the class's priority list
\* (printed and unknown: tesseract, paddle, easyocr; handwritten: easyocr,
\* paddle, tesseract; mixed: paddle, easyocr, tesseract) that is registered,
\* the first registered engine if none is; it never raises and its result
\* is a registered engine.
C7_SelectEngineFollowsPriority ==
    (op = "_select_engine" /\ call.document_type \in DocumentClasses) =>
        LET listed ==
                CASE call.document_type \in {"printed", "unknown"} ->
                         <<"tesseract", "paddle", "easyocr">>
                  [] call.document_type = "handwritten" ->
                         <<"easyocr", "paddle", "tesseract">>
                  [] call.document_type = "mixed" ->
                         <<"paddle", "easyocr", "tesseract">>
            present == {i \in 1..Len(listed) : listed[i] \in Range(engines)}
        IN  /\ ret.exc = "none"
            /\ ret.engine \in Range(engines)
            /\ ret.engine = IF present # {} THEN listed[Min(present)]
                            ELSE engines[1]

\* A handwritten document with tesseract and paddle registered: paddle is
\* selected, not the first registered engine.
C7_Witness ==
    /\ op = "_select_engine"
    /\ call.document_type = "handwritten"
    /\ engines = <<"tesseract", "paddle">>
    /\ ret.engine = "paddle"

\* C8. The arbiter returns the result of highest confidence among the
\* backends' results; among results of equal highest confidence, that of
\* the engine registered earliest.
C8_EnsemblePicksHighestEarliest ==
    (op = "_ocr_ensemble" /\ ret.exc = "none") =>
        LET image == call.image_path
            conf == [i \in 1..Len(engines) |-> image.ocr[engines[i]].confidence]
            top == Max(Range(conf))
            winner == Min({i \in 1..Len(engines) : conf[i] = top})
        IN  /\ ret.result.confidence = top
            /\ ret.result.engine = EnsembleLabel(engines[winner])
            /\ ret.result.text = strip(image.ocr[engines[winner]].text)

\* Three backends, the last two tied at the highest confidence: the
\* earlier of the two is chosen.
C8_Witness ==
    /\ op = "_ocr_ensemble"
    /\ ret.exc = "none"
    /\ engines = <<"tesseract", "easyocr", "paddle">>
    /\ call.image_path.ocr["tesseract"].confidence = 50
    /\ call.image_path.ocr["easyocr"].confidence = 90
    /\ call.image_path.ocr["paddle"].confidence = 90
    /\ ret.result.engine = "ensemble (easyocr selected)"

\* C9. A process_document call that returns appends exactly its result at
\* the end of the ledger and leaves the entries stored before as they were.
C9_SuccessAppendsOneEntry ==
    [][(op' = "process_document" /\ ret'.exc = "none") =>
           processed_documents' = Append(processed_documents, ret'.result)
      ]_vars

\* A successful process_document on a ledger that already holds a
\* different document.
C9_Witness ==
    /\ op = "process_document"
    /\ ret.exc = "none"
    /\ Len(processed_documents) = 2
    /\ processed_documents[2] = ret.result
    /\ processed_documents[1] # ret.result

\* C10. get_statistics reflects the documents processed successfully (those
\* whose call returned a result) and no others: it is empty when there is
\* none; otherwise the count is their number, the words and the mean
\* confidence are taken over them, and the histogram sums to the count.
C10_StatisticsReflectSuccesses ==
    op = "get_statistics" =>
        IF returned = <<>>
        THEN DOMAIN ret.stats = {}
        ELSE /\ DOMAIN ret.stats # {}
             /\ ret.stats.total_documents = Len(returned)
             /\ ret.stats.total_words =
                    SumSeq([i \in 1..Len(returned) |-> returned[i].ocr.word_count])
             /\ ret.stats.average_confidence =
                    RoundHalfEven(
                        SumSeq([i \in 1..Len(returned) |-> returned[i].ocr.confidence]),
                        Len(returned))
             /\ SumValues(ret.stats.document_types) = ret.stats.total_documents

\* The backends on what their recognizers report: each behaviour draws a
\* backend and the per-box confidences, and makes the call.
InitWrappers ==
    /\ engines = <<"tesseract", "easyocr", "paddle">>
    /\ nlp = FALSE
    /\ processed_documents = <<>>
    /\ returned = <<>>
    /\ op = "init"
    /\ call \in [engine : {"tesseract"}, conf : SeqsUpTo(TesseractConfEntries, MaxBoxes)]
          \cup [engine : {"easyocr", "paddle"}, conf : SeqsUpTo(LineConfidences, MaxBoxes)]
    /\ ret = [exc |-> "none"]
    /\ hashseed = 0
    /\ ner = "none"

DoOcrTesseract == op = "init" /\ OcrTesseract(call)

DoOcrEasyocr == op = "init" /\ OcrEasyocr(call)

DoOcrPaddle == op = "init" /\ OcrPaddle(call)

NextWrappers ==
    \/ DoOcrTesseract
    \/ DoOcrEasyocr
    \/ DoOcrPaddle

SpecWrappers == InitWrappers /\ [][NextWrappers]_vars

\* The extractor on its own: each behaviour fixes whether spaCy's model is
\* installed and which entities it finds, and calls the extractor on texts.
InitMetadata ==
    /\ engines = <<"tesseract">>
    /\ nlp \in BOOLEAN
    /\ ner \in (IF nlp THEN NerModels ELSE {"none"})
    /\ hashseed \in HashSeeds
    /\ processed_documents = <<>>
    /\ returned = <<>>
    /\ op = "init"
    /\ call = [text |-> T_empty]
    /\ ret = [exc |-> "none"]

DoExtractAll == \E text \in Texts : ExtractAll(text)

DoGenerateTags == \E text \in Texts : GenerateTags(text)

DoClassifyDocumentType == \E text \in Texts : ClassifyDocumentType(text)

NextMetadata ==
    \/ DoExtractAll
    \/ DoGenerateTags
    \/ DoClassifyDocumentType
    \/ Restart

SpecMetadata == InitMetadata /\ [][NextMetadata]_vars

\* The preprocessor on its own: each behaviour is one call.
InitPreprocessor ==
    /\ engines = <<"tesseract">>
    /\ nlp = FALSE
    /\ ner = "none"
    /\ hashseed = 0
    /\ processed_documents = <<>>
    /\ returned = <<>>
    /\ op = "init"
    /\ call = [image |-> Image("scan.png", TRUE, <<>>, SharpPixels, ReadsNothing)]
    /\ ret = [exc |-> "none"]

DoPreprocess ==
    /\ op = "init"
    /\ \E image_path \in Files, operations \in OperationArgs :
           Preprocess(image_path, operations)

DoAssessQuality == op = "init" /\ \E image \in Rasters : AssessQuality(image)

DoDetectDocumentType == op = "init" /\ \E image \in Rasters : DetectDocumentType(image)

DoDeskew == op = "init" /\ \E image \in SkewedRasters : Deskew(image)

NextPreprocessor ==
    \/ DoPreprocess
    \/ DoAssessQuality
    \/ DoDetectDocumentType
    \/ DoDeskew

SpecPreprocessor == InitPreprocessor /\ [][NextPreprocessor]_vars

\* One run of the per-document pipeline, statement by statement, on an
\* image on which each recognizer raises or reads a letter.
PipelineImages ==
    {Image("scan.png", d, c, SharpPixels, o) :
        d \in BOOLEAN, c \in ContourLists,
        o \in [EngineIds -> {Raises, ReadLetter}]}

InitPipeline ==
    /\ engines \in Registries
    /\ nlp = FALSE
    /\ processed_documents = <<>>
    /\ returned = <<>>
    /\ op = "init"
    /\ call \in [image_path : PipelineImages, document_type : DocumentTypeArgs,
                 preprocess : BOOLEAN]
    /\ ret = [exc |-> "none", invoked |-> <<>>]
    /\ hashseed = 0
    /\ ner = "none"

NextPipeline ==
    \/ Imread
    \/ PreprocessStep
    \/ DetectStep
    \/ AssessStep
    \/ SelectStep
    \/ RecognizeStep
    \/ ReturnStep
    \/ CombineStep

SpecPipeline == InitPipeline /\ [][NextPipeline]_vars

\* One call of get_statistics while another thread processes documents.
DoProcessDocumentConcurrently ==
    \E image_path \in Uploads : ProcessDocumentConcurrently(image_path)

NextConcurrent ==
    \/ DoProcessDocumentConcurrently
    \/ StatsIfEmpty
    \/ StatsTotalDocs
    \/ StatsTotalWords
    \/ StatsAvgConfidence
    \/ StatsDocTypes
    \/ StatsReturn

SpecConcurrent == Init /\ [][NextConcurrent]_vars

\* Case-insensitive substring: needle occurs in hay at some position, letter
\* case apart.
OccursIgnoringCase(hay, needle) ==
    \E i \in 0..(Len(hay) - Len(needle)) :
        \A j \in 1..Len(needle) : LowerChar(hay[i + j]) = LowerChar(needle[j])

\* The strings of a ledger entry a query is matched against: its recognized
\* text, its tags, and the values of its metadata fields.
Searchable(doc) ==
    {doc.ocr.text} \cup Range(doc.tags) \cup {doc.metadata.document_type}
    \cup UNION {Range(doc.metadata[key]) : key \in DOMAIN doc.metadata \ {"document_type"}}

\* C11. search_documents returns exactly the ledger entries, in ledger
\* order, of which the text, a tag or a metadata value contains the query
\* as a case-insensitive substring.
C11_SearchReturnsExactlyTheMatches ==
    op = "search_documents" =>
        /\ ret.exc = "none"
        /\ ret.results =
               SelectSeq(processed_documents, LAMBDA doc :
                   \E v \in Searchable(doc) : OccursIgnoringCase(v, call.query))

\* A query that matches one of two ledger entries, through a tag only.
C11_Witness ==
    /\ op = "search_documents"
    /\ call.query = <<"L", "E", "T", "T", "E", "R">>
    /\ Len(processed_documents) = 2
    /\ Len(ret.results) = 1
    /\ ~OccursIgnoringCase(ret.results[1].ocr.text, call.query)

\* C12. The confidence returned by a backend (and so by the ensemble, which
\* returns a backend's result) is within [0, 1], whatever per-box
\* confidences the recognizer reports, none at all included.
C12_ConfidenceWithinUnitInterval ==
    op \in {"_ocr_tesseract", "_ocr_easyocr", "_ocr_paddle"} =>
        /\ ret.confidence.den > 0
        /\ 0 <= ret.confidence.num
        /\ ret.confidence.num <= ret.confidence.den

\* s has no element twice.
NoDuplicate(s) == \A i, j \in 1..Len(s) : s[i] = s[j] => i = j

MetadataLists ==
    {"dates", "names", "organizations", "locations", "emails", "phone_numbers",
     "reference_numbers", "amounts"}

\* C13. Every field list returned by extract_all and the tag list returned
\* by generate_tags holds no value twice, also when several patterns, or a
\* pattern and the pipeline, produce the same value.
C13_ListsHaveNoDuplicates ==
    /\ op = "extract_all" =>
           \A field \in MetadataLists : NoDuplicate(ret.metadata[field])
    /\ op = "generate_tags" => NoDuplicate(ret.tags)

\* extract_all on a text whose date is found by a pattern and, twice, by
\* the pipeline.
C13_Witness ==
    /\ op = "extract_all"
    /\ nlp
    /\ ~NoDuplicate(Hits(<<"date_dmy">>, call.text) \o EntTexts(call.text, {"DATE"}))
    /\ Len(ret.metadata.dates) = 2

\* C14. extract_all called again on the text of its last call returns the
\* same value for every field, each field's values in the same order.
C14_ExtractAllOrderStable ==
    (op = "extract_all" /\ ret.previous # <<>> /\ ret.previous[1].text = call.text)
        => ret.metadata = ret.previous[1].metadata

\* C15, as stated: with the pipeline loaded, the dates, names and amounts
\* include every value returned for the text without it; without it, names
\* are the capitalized-bigram matches, organizations and locations empty.
C15_NerIncludesEveryFallbackValue ==
    op = "extract_all" =>
        /\ nlp =>
               /\ Range(extract_dates(FALSE, call.text)) \subseteq Range(ret.metadata.dates)
               /\ Range(extract_names(FALSE, call.text)) \subseteq Range(ret.metadata.names)
               /\ Range(extract_amounts(FALSE, call.text)) \subseteq Range(ret.metadata.amounts)
        /\ ~nlp =>
               /\ Range(ret.metadata.names) = Range(findall("capitalized_bigram", call.text))
               /\ ret.metadata.organizations = <<>>
               /\ ret.metadata.locations = <<>>

\* C15, amended. With the pipeline loaded, the dates and amounts include
\* every value returned for the text without it, and the names are exactly
\* the pipeline's PERSON entities (the capitalized-bigram matches are left
\* out); without it, names are the capitalized-bigram matches,
\* organizations and locations empty.
C15_NerSupplementsDatesAndAmounts ==
    op = "extract_all" =>
        /\ nlp =>
               /\ Range(extract_dates(FALSE, call.text)) \subseteq Range(ret.metadata.dates)
               /\ Range(extract_amounts(FALSE, call.text)) \subseteq Range(ret.metadata.amounts)
               /\ Range(ret.metadata.names) =
                      {e.text : e \in {x \in Range(ents(call.text)) : x.label = "PERSON"}}
        /\ ~nlp =>
               /\ Range(ret.metadata.names) = Range(findall("capitalized_bigram", call.text))
               /\ ret.metadata.organizations = <<>>
               /\ ret.metadata.locations = <<>>

\* extract_all with the pipeline loaded, on a text where the patterns find
\* dates and the pipeline finds another one.
C15_Witness ==
    /\ op = "extract_all"
    /\ nlp
    /\ Len(extract_dates(FALSE, call.text)) = 2
    /\ Len(ret.metadata.dates) = 3

\* The occurrences of needle in hay, counted from the left without overlap
\* (str.count).
RECURSIVE CountOccurrences(_, _)
CountOccurrences(hay, needle) ==
    IF Len(hay) < Len(needle) THEN 0
    ELSE IF SubSeq(hay, 1, Len(needle)) = needle
    THEN 1 + CountOccurrences(SubSeq(hay, Len(needle) + 1, Len(hay)), needle)
    ELSE CountOccurrences(Tail(hay), needle)

\* The label of the first entry of the keyword table that has the highest
\* score, when that score is not zero; unknown otherwise.
TopLabel(score) ==
    IF \A i \in 1..Len(type_keywords) : score[i] = 0 THEN T_unknown
    ELSE type_keywords[CHOOSE i \in 1..Len(type_keywords) :
                           /\ \A j \in 1..Len(type_keywords) : score[j] <= score[i]
                           /\ \A j \in 1..(i - 1) : score[j] < score[i]].doc_type

\* C16, as stated: the score of a label is the number of occurrences, in
\* the lower-cased text, of its keywords; the highest nonzero score wins,
\* the earlier label among equals; no hit gives unknown.
C16_ClassifyCountsOccurrences ==
    op = "classify_document_type" =>
        ret.document_type =
            TopLabel([i \in 1..Len(type_keywords) |->
                SumValues([k \in type_keywords[i].keywords |->
                              CountOccurrences(lower(call.text), k)])])

\* C16, amended. The score of a label is the number of its keywords that
\* occur in the lower-cased text, each counted once however often it
\* occurs; the highest nonzero score wins, the earlier label among equals
\* (invoice, letter, form, legal, gazette, manuscript, administrative,
\* receipt); no hit gives unknown.
C16_ClassifyCountsKeywordsPresent ==
    op = "classify_document_type" =>
        ret.document_type =
            TopLabel([i \in 1..Len(type_keywords) |->
                Cardinality({k \in type_keywords[i].keywords :
                                CountOccurrences(lower(call.text), k) > 0})])

\* classify_document_type on a text where two labels have the same top
\* score, and the earlier one is returned.
C16_Witness ==
    /\ op = "classify_document_type"
    /\ Contains(lower(call.text), <<"d", "e", "a", "r">>)
    /\ Contains(lower(call.text), <<"i", "n", "v", "o", "i", "c", "e">>)
    /\ ret.document_type = <<"i", "n", "v", "o", "i", "c", "e">>

\* The words of the text that may become tags: lower-cased, longer than 3
\* characters, no stop word.
TagWords(text) ==
    SelectSeq(split(lower(text)), LAMBDA w : Len(w) > 3 /\ w \notin stopwords)

Occurrences(words, w) == Cardinality({i \in 1..Len(words) : words[i] = w})

\* top is a choice of the n most frequent words of words (all of them when
\* there are fewer).
IsTop(top, words, n) ==
    /\ top \subseteq Range(words)
    /\ Cardinality(top) = Min({n, Cardinality(Range(words))})
    /\ \A w \in top : \A v \in Range(words) \ top :
           Occurrences(words, w) >= Occurrences(words, v)

\* C17. generate_tags returns exactly the document type of the metadata,
\* its organizations, its locations and the five most frequent tag words
\* of the text; the document type is among the tags, and there are at most
\* 1 + |organizations| + |locations| + 5 tags.
C17_TagsAreTypeOrgsLocationsTopWords ==
    op = "generate_tags" =>
        /\ \E top \in SUBSET Range(TagWords(call.text)) :
               /\ IsTop(top, TagWords(call.text), 5)
               /\ Range(ret.tags) =
                      {ret.metadata.document_type}
                          \cup Range(ret.metadata.organizations)
                          \cup Range(ret.metadata.locations)
                          \cup top
        /\ ret.metadata.document_type \in Range(ret.tags)
        /\ Len(ret.tags) <= 1 + Len(ret.metadata.organizations)
                              + Len(ret.metadata.locations) + 5

\* generate_tags on a text with more than five tag words: five of them and
\* the document type come back.
C17_Witness ==
    /\ op = "generate_tags"
    /\ Cardinality(Range(TagWords(call.text))) > 5
    /\ Cardinality(Range(ret.tags) \cap Range(TagWords(call.text))) = 5
    /\ Len(ret.tags) = 6

\* C18. The quality label is one of four values, decided by the first rule
\* that matches: sharpness < 100 gives blurry; else brightness < 50 or
\* > 200 gives poor_lighting; else contrast < 30 gives low_contrast; else
\* good.  The values 100, 50, 200 and 30 trigger no rule.
C18_QualityLabelFirstMatch ==
    op = "assess_quality" =>
        LET sharpness == call.image.pixels.sharpness
            brightness == call.image.pixels.brightness
            contrast == call.image.pixels.contrast
            lit == 50 <= brightness /\ brightness <= 200
        IN  /\ ret.quality \in {"blurry", "poor_lighting", "low_contrast", "good"}
            /\ ret.quality = "blurry" <=> sharpness < 100
            /\ ret.quality = "poor_lighting" <=> (sharpness >= 100 /\ ~lit)
            /\ ret.quality = "low_contrast" <=>
                   (sharpness >= 100 /\ lit /\ contrast < 30)
            /\ ret.quality = "good" <=>
                   (sharpness >= 100 /\ lit /\ contrast >= 30)

\* assess_quality on a raster that is badly lit and of low contrast: the
\* lighting rule comes first.
C18_Witness ==
    /\ op = "assess_quality"
    /\ call.image.pixels.sharpness = 100
    /\ call.image.pixels.brightness = 201
    /\ call.image.pixels.contrast = 29
    /\ ret.quality = "poor_lighting"

\* The contours that count: those of area > 10.
Qualifying(contours) == SelectSeq(contours, LAMBDA c : c.area > 10)

\* The sum over the contours of complexity - cutoff, where complexity is
\* perimeter^2 / (area + 1), multiplied by the product of all (area + 1):
\* it is positive exactly when the mean complexity exceeds the cutoff.
ExcessOver(cutoff, contours) ==
    SumSeq([i \in 1..Len(contours) |->
        (contours[i].perimeter * contours[i].perimeter
             - cutoff * (contours[i].area + 1))
        * ProdSeq([j \in 1..Len(contours) |->
                      IF j = i THEN 1 ELSE contours[j].area + 1])])

\* C19. detect_document_type averages perimeter^2 / (area + 1) over the
\* contours of area > 10 only: handwritten if the average is > 100, mixed
\* if it is > 50 and <= 100, printed otherwise; unknown exactly when no
\* contour has area > 10.
C19_DocumentClassFromMeanComplexity ==
    op = "detect_document_type" =>
        LET kept == Qualifying(call.image.contours)
        IN  /\ ret.document_type = "unknown" <=> kept = <<>>
            /\ ret.document_type = "handwritten" <=>
                   (kept # <<>> /\ ExcessOver(100, kept) > 0)
            /\ ret.document_type = "mixed" <=>
                   (kept # <<>> /\ ExcessOver(50, kept) > 0 /\ ExcessOver(100, kept) <= 0)
            /\ ret.document_type = "printed" <=>
                   (kept # <<>> /\ ExcessOver(50, kept) <= 0)

\* detect_document_type on a raster with a ragged contour too small to
\* count and a compact one: the small one is left out of the average.
C19_Witness ==
    /\ op = "detect_document_type"
    /\ Len(call.image.contours) = 2
    /\ Len(Qualifying(call.image.contours)) = 1
    /\ ExcessOver(100, call.image.contours) > 0
    /\ ret.document_type = "printed"

\* C20. preprocess applies the enabled operations in the order denoise,
\* deskew, remove_shadows, enhance_contrast, whatever order the options
\* are given in; an operation is applied if and only if its option is
\* enabled, and an option the caller does not give counts as enabled.
C20_OperationsDefaultToEnabled ==
    (op = "preprocess" /\ ret.exc = "none") =>
        ret.image.applied =
            SelectSeq(<<"denoise", "deskew", "remove_shadows", "enhance_contrast">>,
                      LAMBDA k : get(call.operations, k, TRUE))

\* The frame has assigned the local variable.
Assigned(frame, local) == local \in DOMAIN frame

\* C21. In a run of the per-document pipeline the document class and the
\* quality metrics are computed before the engine is selected, the engine
\* is selected before any backend is invoked, and neither the class nor
\* the metrics changes afterwards: the values in the result are those that
\* selection was made with.
C21_ClassAndMetricsFixedBeforeSelection ==
    /\ [](Assigned(ret, "engine") =>
              /\ Assigned(ret, "document_type")
              /\ Assigned(ret, "quality_metrics")
              /\ ret.engine = _select_engine(engines, ret.document_type))
    /\ [](ret.invoked # <<>> => Assigned(ret, "engine"))
    /\ [](op \in {"return", "process_document"} =>
              /\ ret.result.document_type = ret.document_type
              /\ ret.result.quality_metrics = ret.quality_metrics
              /\ ret.result.engine_used =
                     _select_engine(engines, ret.result.document_type))
    /\ [](op = "process_document" =>
              /\ ret.processing_result.document_type = ret.document_type
              /\ ret.processing_result.quality_metrics = ret.quality_metrics)
    /\ [][/\ Assigned(ret, "document_type") =>
                 ret'.document_type = ret.document_type
          /\ Assigned(ret, "quality_metrics") =>
                 ret'.quality_metrics = ret.quality_metrics]_vars

\* A run that detected the class itself, selected EasyOCR for a
\* handwritten page, invoked it and built the processing result.
C21_Witness ==
    /\ op = "process_document"
    /\ ret.invoked = <<"easyocr">>
    /\ ret.processing_result.document_type = "handwritten"
    /\ ret.result.engine_used = "easyocr"

\* What the engine field of an ensemble result reads when the result of
\* the given backend was selected.
SelectedLabel ==
    [tesseract |-> "ensemble (tesseract selected)",
     easyocr |-> "ensemble (easyocr selected)",
     paddle |-> "ensemble (paddle selected)"]

C23_RegistryUnchangedAfterConstruction == [][engines' = engines]_vars

\* Two documents were processed and a search made on a processor with
\* three engines.
C23_Witness ==
    /\ op = "search_documents"
    /\ Len(processed_documents) = 2
    /\ engines = <<"tesseract", "easyocr", "paddle">>

\* C24. deskew brings the angle into (-45, 45] degrees for every angle in
\* [-90, 90] the minimum-area rectangle may have, and returns the raster
\* as it is when that angle is below 0.5 degrees in absolute value or when
\* the raster has no foreground pixel, and rotates it otherwise.
C24_DeskewAngleNormalized ==
    op = "deskew" =>
        /\ -450 < ret.angle /\ ret.angle <= 450
        /\ ~ret.rotated <=>
               (~call.image.foreground \/ (-5 < ret.angle /\ ret.angle < 5))

\* C25. For every document class, an unrecognised class string given by
\* the caller included, and every non-empty registry, extract_text on a
\* file that decodes invokes exactly one backend: the first registered
\* engine of the class's priority list.  The ensemble branch is not taken.
C25_ExtractTextInvokesOneRegisteredBackend ==
    (op = "extract_text" /\ call.image_path.decodable) =>
        LET dt == IF call.document_type = "None"
                  THEN detect_document_type(call.image_path)
                  ELSE call.document_type
            listed == SelectSeq(priority(dt), LAMBDA e : e \in Range(engines))
        IN  /\ Len(ret.invoked) = 1
            /\ ret.invoked[1] \in Range(engines)
            /\ ret.invoked[1] = listed[1]
            /\ ret.exc = "none" =>
                   /\ ret.result.engine = ret.invoked[1]
                   /\ ret.result.engine_used = ret.invoked[1]
                   /\ "all_results" \notin DOMAIN ret.result

\* extract_text with a class string the priority table does not know, on
\* a registry without Tesseract: PaddleOCR alone is invoked.
C25_Witness ==
    /\ op = "extract_text"
    /\ call.document_type = "receipt"
    /\ engines = <<"easyocr", "paddle">>
    /\ ret.exc = "none"
    /\ ret.invoked = <<"paddle">>

\* C26. After any sequence of process_document and process_batch calls
\* the ledger holds exactly the results that were returned as successes,
\* in the order they were processed: no error record is in it, and a
\* document that raised or that process_batch reported as an error record
\* (one whose output files could not be written included) has no entry.
C26_LedgerHoldsExactlyReturnedSuccesses ==
    /\ processed_documents = returned
    /\ \A i \in 1..Len(processed_documents) :
           "error" \notin DOMAIN processed_documents[i]

\* C27. get_statistics does not raise: on an empty ledger it returns an
\* empty mapping (nothing is divided by the count of zero), and on a
\* ledger that is not empty it returns the four aggregates.
C27_StatisticsNeverFail ==
    op = "get_statistics" =>
        /\ ret.exc = "none"
        /\ processed_documents = <<>> => DOMAIN ret.stats = {}
        /\ processed_documents # <<>> =>
               /\ DOMAIN ret.stats =
                      {"total_documents", "total_words", "average_confidence",
                       "document_types"}
               /\ ret.stats.total_documents = Len(processed_documents)

\* get_statistics on a processor whose ledger is empty.
C27_Witness ==
    /\ op = "get_statistics"
    /\ processed_documents = <<>>
    /\ ret.stats = EmptyDict

\* C28. After _ocr_ensemble every result retained in all_results carries
\* the plain id of the backend that produced it and what that backend
\* returned: labelling the chosen result does not alter a retained one.
C28_AuditResultsKeepBackendId ==
    (op = "_ocr_ensemble" /\ ret.exc = "none") =>
        \A i \in 1..Len(ret.result.all_results) :
            LET retained == ret.result.all_results[i]
            IN  /\ retained.engine = ret.invoked[i]
                /\ retained.text = strip(call.image_path.ocr[ret.invoked[i]].text)
                /\ retained.confidence = call.image_path.ocr[ret.invoked[i]].confidence

\* results picks entries of ledger, each at most once, in ledger order.
IsSubsequence(results, ledger) ==
    \E f \in [1..Len(results) -> 1..Len(ledger)] :
        /\ \A k \in 1..Len(results) : results[k] = ledger[f[k]]
        /\ \A k, l \in 1..Len(results) : k < l => f[k] < f[l]

\* C29. search_documents returns each matching entry of the ledger at most
\* once, also when it matches in several places, in ledger order; neither
\* search_documents nor get_statistics changes the ledger or an entry.
C29_SearchOncePerEntryLedgerUntouched ==
    /\ [](op = "search_documents" => IsSubsequence(ret.results, processed_documents))
    /\ [][op' \in {"search_documents", "get_statistics"} =>
              processed_documents' = processed_documents]_vars

\* A search that returned one entry, which matches the query both in its
\* text and in a metadata value.
C29_Witness ==
    /\ op = "search_documents"
    /\ call.query # <<>>
    /\ Len(ret.results) = 1
    /\ Contains(lower(ret.results[1].ocr.text), lower(call.query))
    /\ AnyContains(ret.results[1].metadata.names, lower(call.query))

\* C30. When get_statistics runs while another thread processes
\* documents on the same processor, no append is lost, and the count, the
\* words, the mean confidence and the histogram returned all describe one
\* and the same snapshot of the ledger; in particular the mean confidence
\* lies within the range of the stored confidences.
C30_StatisticsDescribeOneSnapshot ==
    /\ processed_documents = returned
    /\ (op = "return" /\ DOMAIN ret.stats # {}) =>
           /\ \E n \in 1..Len(processed_documents) :
                  LET snapshot == SubSeq(processed_documents, 1, n)
                  IN  /\ ret.stats.total_documents = n
                      /\ ret.stats.total_words =
                             SumSeq([i \in 1..n |-> snapshot[i].ocr.word_count])
                      /\ ret.stats.average_confidence =
                             RoundHalfEven(
                                 SumSeq([i \in 1..n |-> snapshot[i].ocr.confidence]), n)
                      /\ ret.stats.document_types = CountTypes(snapshot, EmptyDict)
           /\ ret.stats.average_confidence >=
                  Min({processed_documents[i].ocr.confidence :
                          i \in 1..Len(processed_documents)})
           /\ ret.stats.average_confidence <=
                  Max({processed_documents[i].ocr.confidence :
                          i \in 1..Len(processed_documents)})

====
